---------------------------- MODULE Spec2Model ----------------------------
(***************************************************************************)
(* Model of the All-In-Trading-Bot snapshot pipeline (Editers/snapshots.py)  *)
(* and of the news timeframe/dedup pipeline (newsentiment.py).               *)
(*                                                                           *)
(* Strings the code parses are sequences of one-character strings, calendar  *)
(* dates are proleptic Gregorian ordinals (date.toordinal), datetimes are    *)
(* whole hours since an epoch, Python None is the string "None", a dict is a *)
(* function whose DOMAIN is its key set and a list is a sequence.            *)
(***************************************************************************)
EXTENDS Integers, Sequences, FiniteSets, TLC

None == "None"

(***************************************************************************)
(* String helpers (str methods the code calls)                               *)
(***************************************************************************)
DigitChars == <<"0", "1", "2", "3", "4", "5", "6", "7", "8", "9">>

IsDigit(c) == \E i \in 1..10 : DigitChars[i] = c

DigitVal(c) == (CHOOSE i \in 1..10 : DigitChars[i] = c) - 1

IsSpace(c) == c \in {" ", "\t"}

Contains(s, c) == \E i \in 1..Len(s) : s[i] = c

\* Index of the first position of s holding a character of set cs, 0 if none.
FirstIndex(s, cs) ==
    IF \E i \in 1..Len(s) : s[i] \in cs
    THEN CHOOSE i \in 1..Len(s) : s[i] \in cs /\ \A j \in 1..(i - 1) : s[j] \notin cs
    ELSE 0

\* str.strip()
Strip(s) ==
    IF \A i \in 1..Len(s) : IsSpace(s[i]) THEN <<>>
    ELSE LET a == CHOOSE i \in 1..Len(s) : ~IsSpace(s[i]) /\ \A j \in 1..(i - 1) : IsSpace(s[j])
             b == CHOOSE i \in 1..Len(s) : ~IsSpace(s[i]) /\ \A j \in (i + 1)..Len(s) : IsSpace(s[j])
         IN  SubSeq(s, a, b)

\* s.split(c)[0] for a one-character separator c
SplitFirst(s, c) ==
    LET i == FirstIndex(s, {c})
    IN  IF i = 0 THEN s ELSE SubSeq(s, 1, i - 1)

\* s.split()[0] for a string that does not start with whitespace
SplitWsFirst(s) ==
    LET i == FirstIndex(s, {" ", "\t"})
    IN  IF i = 0 THEN s ELSE SubSeq(s, 1, i - 1)

\* s.split(c): the fields of s between occurrences of c
RECURSIVE SplitAll(_, _)
SplitAll(s, c) ==
    LET i == FirstIndex(s, {c})
    IN  IF i = 0 THEN <<s>>
        ELSE <<SubSeq(s, 1, i - 1)>> \o SplitAll(SubSeq(s, i + 1, Len(s)), c)

StartsWith(s, p) == Len(s) >= Len(p) /\ SubSeq(s, 1, Len(p)) = p

EndsWith(s, p) == Len(s) >= Len(p) /\ SubSeq(s, Len(s) - Len(p) + 1, Len(s)) = p

\* s.replace(p, "") : every non-overlapping occurrence of p, left to right
RECURSIVE RemoveAll(_, _)
RemoveAll(s, p) ==
    IF Len(s) = 0 THEN s
    ELSE IF StartsWith(s, p) THEN RemoveAll(SubSeq(s, Len(p) + 1, Len(s)), p)
    ELSE <<s[1]>> \o RemoveAll(SubSeq(s, 2, Len(s)), p)

\* Value of a non-empty string of digits
RECURSIVE NumVal(_)
NumVal(s) ==
    IF Len(s) = 0 THEN 0
    ELSE 10 * NumVal(SubSeq(s, 1, Len(s) - 1)) + DigitVal(s[Len(s)])

AllDigits(s) == \A i \in 1..Len(s) : IsDigit(s[i])

\* A number written with at least w digits, zero padded
RECURSIVE ZeroPad(_, _)
ZeroPad(n, w) ==
    IF w <= 1 /\ n < 10 THEN <<DigitChars[n + 1]>>
    ELSE ZeroPad(n \div 10, w - 1) \o <<DigitChars[(n % 10) + 1]>>

(***************************************************************************)
(* Calendar (datetime.date)                                                  *)
(***************************************************************************)
IsLeap(y) == (y % 4 = 0) /\ ((y % 100 # 0) \/ (y % 400 = 0))

DaysInMonth(y, m) ==
    IF m = 2 THEN (IF IsLeap(y) THEN 29 ELSE 28)
    ELSE IF m \in {4, 6, 9, 11} THEN 30 ELSE 31

RECURSIVE DaysBeforeMonth(_, _)
DaysBeforeMonth(y, m) ==
    IF m <= 1 THEN 0 ELSE DaysBeforeMonth(y, m - 1) + DaysInMonth(y, m - 1)

DaysBeforeYear(y) ==
    (y - 1) * 365 + ((y - 1) \div 4) - ((y - 1) \div 100) + ((y - 1) \div 400)

\* date(y, m, d).toordinal()
Ordinal(y, m, d) == DaysBeforeYear(y) + DaysBeforeMonth(y, m) + d

ValidDate(y, m, d) ==
    /\ y \in 1..9999
    /\ m \in 1..12
    /\ d \in 1..DaysInMonth(y, m)

\* date.fromordinal(n) as <<y, m, d>>
YearOf(n) ==
    CHOOSE y \in ((n \div 366) - 1)..((n \div 365) + 1) :
        y >= 1 /\ DaysBeforeYear(y) < n /\ n <= DaysBeforeYear(y + 1)

MonthOf(n) ==
    LET y == YearOf(n)
        r == n - DaysBeforeYear(y)
    IN  CHOOSE m \in 1..12 :
            DaysBeforeMonth(y, m) < r /\ r <= DaysBeforeMonth(y, m) + DaysInMonth(y, m)

DayOf(n) == n - DaysBeforeYear(YearOf(n)) - DaysBeforeMonth(YearOf(n), MonthOf(n))

\* date.isoformat(): YYYY-MM-DD
IsoFormat(n) ==
    ZeroPad(YearOf(n), 4) \o <<"-">> \o ZeroPad(MonthOf(n), 2) \o <<"-">> \o ZeroPad(DayOf(n), 2)

(***************************************************************************)
(* snapshots.py: parse_date                                                  *)
(***************************************************************************)
\* parse_date's "return None"; every real ordinal is >= 1
NoDate == 0

\* The strptime directives, as the regular expressions of _strptime:
\* %Y \d\d\d\d, %m 1[0-2]|0[1-9]|[1-9], %d 3[0-1]|[1-2]\d|0[1-9]|[1-9]| [1-9],
\* %H 2[0-3]|[0-1]\d|\d, %M [0-5]\d|\d, %S 6[0-1]|[0-5]\d|\d
MatchY(f) == Len(f) = 4 /\ AllDigits(f)

MatchM(f) == Len(f) \in 1..2 /\ AllDigits(f) /\ NumVal(f) \in 1..12

MatchD(f) ==
    \/ Len(f) \in 1..2 /\ AllDigits(f) /\ NumVal(f) \in 1..31
    \/ Len(f) = 2 /\ f[1] = " " /\ IsDigit(f[2]) /\ f[2] # "0"

DayVal(f) == IF f[1] = " " THEN DigitVal(f[2]) ELSE NumVal(f)

MatchH(f) == Len(f) \in 1..2 /\ AllDigits(f) /\ NumVal(f) \in 0..23

MatchMin(f) == Len(f) \in 1..2 /\ AllDigits(f) /\ NumVal(f) \in 0..59

\* %S also matches 60 and 61, which datetime() then rejects
MatchS(f) == Len(f) \in 1..2 /\ AllDigits(f) /\ NumVal(f) \in 0..59

\* the date built from matched year, month and day fields, NoDate when
\* datetime() raises ValueError (year 0, 30 February, ...)
MakeDate(fy, fm, fd) ==
    IF MatchY(fy) /\ MatchM(fm) /\ MatchD(fd)
       /\ ValidDate(NumVal(fy), NumVal(fm), DayVal(fd))
    THEN Ordinal(NumVal(fy), NumVal(fm), DayVal(fd))
    ELSE NoDate

\* %Y-%m-%d
StrptimeDate(s) ==
    LET f == SplitAll(s, "-")
    IN  IF Len(f) = 3 THEN MakeDate(f[1], f[2], f[3]) ELSE NoDate

\* %H:%M:%S
MatchTime(s) ==
    LET f == SplitAll(s, ":")
    IN  Len(f) = 3 /\ MatchH(f[1]) /\ MatchMin(f[2]) /\ MatchS(f[3])

\* datetime.strptime(s, formats[k]).date(), NoDate when it raises.
\* The format's literal T matches t as well (the match ignores case), and
\* the format's blank matches a run of whitespace.
Strptime(s, k) ==
    IF k = 1 THEN StrptimeDate(s)
    ELSE IF k = 2 THEN
        LET i == FirstIndex(s, {"t", "T"})
        IN  IF i = 0 \/ ~MatchTime(SubSeq(s, i + 1, Len(s))) THEN NoDate
            ELSE StrptimeDate(SubSeq(s, 1, i - 1))
    ELSE IF k = 3 THEN
        LET i == FirstIndex(s, {" ", "\t"})
            rest == SubSeq(s, i + 1, Len(s))
        IN  IF i = 0 \/ ~MatchTime(Strip(rest)) \/ Len(Strip(rest)) = 0
               \/ ~EndsWith(rest, Strip(rest))
            THEN NoDate
            ELSE StrptimeDate(SubSeq(s, 1, i - 1))
    ELSE
        LET f == SplitAll(s, "/")
        IN  IF Len(f) = 3 /\ f[1] # <<>> /\ f[1][1] # " "
            THEN MakeDate(f[3], f[2], f[1]) ELSE NoDate

\* the loop "for fmt in formats", from format k on; date_str is reassigned
\* inside the loop, so a cut made for one format is seen by the next ones
RECURSIVE ParseFormats(_, _)
ParseFormats(date_str, k) ==
    IF k > 4 THEN NoDate
    ELSE LET s == IF Contains(date_str, "T") THEN SplitFirst(date_str, "T")
                  ELSE IF Contains(date_str, " ") /\ Contains(date_str, ":")
                       THEN SplitWsFirst(date_str)
                       ELSE date_str
             r == Strptime(s, k)
         IN  IF r # NoDate THEN r ELSE ParseFormats(s, k + 1)

\* None and "" are both the empty sequence: "if not date_str: return None"
parse_date(date_str) ==
    IF date_str = <<>> THEN NoDate ELSE ParseFormats(Strip(date_str), 1)

(***************************************************************************)
(* snapshots.py: extract_all_dates_and_data                                  *)
(*                                                                           *)
(* The input folder is a function from the names of the files that exist to  *)
(* their parsed JSON.  A JSON null field and a missing one are both a key    *)
(* that is not in the DOMAIN (dict.get returns None for both).               *)
(***************************************************************************)
\* dict.get(k) for an opaque payload field
Get(d, k) == IF k \in DOMAIN d THEN d[k] ELSE None

\* dict.get(k) for a date field; None and "" both fail the code's "if date:"
GetStr(d, k) == IF k \in DOMAIN d THEN d[k] ELSE <<>>

\* d[k] = v
DictSet(d, k, v) == [x \in (DOMAIN d) \cup {k} |-> IF x = k THEN v ELSE d[x]]

\* the defaultdict's factory (lines 79-86)
EmptyRecord ==
    [fundamentals |-> <<>>, market_analysis |-> <<>>, xauusd |-> <<>>,
     economic_events |-> <<>>, news |-> <<>>, reddit |-> <<>>]

\* date_data[d]: the defaultdict creates the record on first access
Entry(dd, d) == IF d \in DOMAIN dd THEN dd[d] ELSE EmptyRecord

\* date_data[d][cat][k] = v
SetField(dd, d, cat, k, v) ==
    DictSet(dd, d, [Entry(dd, d) EXCEPT ![cat] = DictSet(@, k, v)])

\* date_data[d][cat] = v
SetCategory(dd, d, cat, v) == DictSet(dd, d, [Entry(dd, d) EXCEPT ![cat] = v])

\* AppendTo storing the new entry in place of the list
AppendTo_Overwrite(dd, d, cat, v) == DictSet(dd, d, [Entry(dd, d) EXCEPT ![cat] = <<v>>])

\* date_data[d][cat].append(v)
AppendTo(dd, d, cat, v) == DictSet(dd, d, [Entry(dd, d) EXCEPT ![cat] = Append(@, v)])

\* FoldValues leaving the loop at the first entry whose date does not parse
RECURSIVE FoldValues_StopAtBad(_, _, _)
FoldValues_StopAtBad(dd, entries, key) ==
    IF entries = <<>> THEN dd
    ELSE IF parse_date(GetStr(Head(entries), "date")) = NoDate THEN dd
    ELSE FoldValues_StopAtBad(SetField(dd, parse_date(GetStr(Head(entries), "date")),
                                       "fundamentals", key, Get(Head(entries), "value")),
                              Tail(entries), key)

\* lines 98-105 and 119-125: a {date, value} series stored under key
RECURSIVE FoldValues(_, _, _)
FoldValues(dd, entries, key) ==
    IF entries = <<>> THEN dd
    ELSE LET entry == Head(entries)
             date_obj == parse_date(GetStr(entry, "date"))
             dd1 == IF date_obj # NoDate
                    THEN SetField(dd, date_obj, "fundamentals", key, Get(entry, "value"))
                    ELSE dd
         IN  FoldValues(dd1, Tail(entries), key)

CloseKey(etf) == IF etf = "GLD" THEN "GLD_CLOSE" ELSE "IAU_CLOSE"

VolumeKey(etf) == IF etf = "GLD" THEN "GLD_VOLUME" ELSE "IAU_VOLUME"

\* lines 108-116: a {date, close, volume} series of one ETF
RECURSIVE FoldEtf(_, _, _)
FoldEtf(dd, entries, etf) ==
    IF entries = <<>> THEN dd
    ELSE LET entry == Head(entries)
             date_obj == parse_date(GetStr(entry, "date"))
             dd1 == IF date_obj # NoDate
                    THEN SetField(SetField(dd, date_obj, "fundamentals", CloseKey(etf),
                                           Get(entry, "close")),
                                  date_obj, "fundamentals", VolumeKey(etf), Get(entry, "volume"))
                    ELSE dd
         IN  FoldEtf(dd1, Tail(entries), etf)

\* lines 128-132
monthly_keys ==
    <<"CPI", "PCE", "PPI", "UNEMPLOYMENT", "NFP", "FEDFUNDS", "M2_MONEY_SUPPLY",
      "RETAIL_SALES", "INDUSTRIAL_PROD", "HOUSING_STARTS">>

\* f"{key}_END_DATE"
EndDateKey(key) ==
    CASE key = "CPI" -> "CPI_END_DATE"
      [] key = "PCE" -> "PCE_END_DATE"
      [] key = "PPI" -> "PPI_END_DATE"
      [] key = "UNEMPLOYMENT" -> "UNEMPLOYMENT_END_DATE"
      [] key = "NFP" -> "NFP_END_DATE"
      [] key = "FEDFUNDS" -> "FEDFUNDS_END_DATE"
      [] key = "M2_MONEY_SUPPLY" -> "M2_MONEY_SUPPLY_END_DATE"
      [] key = "RETAIL_SALES" -> "RETAIL_SALES_END_DATE"
      [] key = "INDUSTRIAL_PROD" -> "INDUSTRIAL_PROD_END_DATE"
      [] key = "HOUSING_STARTS" -> "HOUSING_STARTS_END_DATE"
      [] OTHER -> "REAL_RATE_END_DATE"

\* MonthlyStep attaching the series to the date of each of its observations
MonthlyStep_EveryDate(dd, data, key) ==
    IF key \in DOMAIN data /\ data[key] # <<>>
    THEN LET Put(acc, entry) ==
                 IF parse_date(GetStr(entry, "date")) # NoDate
                 THEN SetField(acc, parse_date(GetStr(entry, "date")), "fundamentals", key,
                               data[key])
                 ELSE acc
         IN  Put(Put(dd, data[key][1]), data[key][Len(data[key])])
    ELSE dd

\* lines 134-142, one pass of "for key in monthly_keys": the whole series
\* goes under the parsed end date, and nowhere when there is none
MonthlyStep(dd, data, key) ==
    IF key \in DOMAIN data /\ data[key] # <<>>
    THEN LET end_date_obj == parse_date(GetStr(data, EndDateKey(key)))
         IN  IF end_date_obj # NoDate
             THEN SetField(dd, end_date_obj, "fundamentals", key, data[key])
             ELSE dd
    ELSE dd

RECURSIVE FoldMonthly(_, _, _)
FoldMonthly(dd, data, i) ==
    IF i > Len(monthly_keys) THEN dd
    ELSE FoldMonthly(MonthlyStep(dd, data, monthly_keys[i]), data, i + 1)

\* lines 145-150
RealRateStep(dd, data) ==
    IF "REAL_RATE" \in DOMAIN data
    THEN LET date_obj == parse_date(GetStr(data, "REAL_RATE_END_DATE"))
         IN  IF date_obj # NoDate
             THEN SetField(dd, date_obj, "fundamentals", "REAL_RATE", data["REAL_RATE"])
             ELSE dd
    ELSE dd

Series(data, key) == IF key \in DOMAIN data THEN data[key] ELSE <<>>

\* lines 96-105: "for key in daily_keys"
FoldDaily(dd, data) ==
    FoldValues(FoldValues(dd, Series(data, "TREASURY_10Y"), "TREASURY_10Y"),
               Series(data, "HY_CREDIT_SPREAD"), "HY_CREDIT_SPREAD")

\* lines 108-116: "for etf in ['GLD', 'IAU']"
FoldEtfs(dd, data) ==
    FoldEtf(FoldEtf(dd, Series(data, "GLD"), "GLD"), Series(data, "IAU"), "IAU")

\* lines 118-125
FoldWeekly(dd, data) == FoldValues(dd, Series(data, "JOBLESS_CLAIMS"), "JOBLESS_CLAIMS")

\* lines 88-150: fundamentals_data.json, section after section
FoldFundamentals(dd, data) ==
    RealRateStep(FoldMonthly(FoldWeekly(FoldEtfs(FoldDaily(dd, data), data), data), data, 1),
                 data)

\* item.get("instrument", "UNKNOWN")
Instrument(item) == IF "instrument" \in DOMAIN item THEN item["instrument"] ELSE "UNKNOWN"

\* lines 161-171, one market-analysis tick.  The key f"{instrument}_PRICE"
\* is the pair <<instrument, "PRICE">>.  RSI and MACD are written only when
\* the tick has an indicators block.
MarketStep(dd, item) ==
    LET date_obj == parse_date(GetStr(item, "timestamp"))
        instrument == Instrument(item)
    IN  IF date_obj = NoDate THEN dd
        ELSE LET d1 == SetField(dd, date_obj, "market_analysis",
                                <<instrument, "PRICE">>, Get(item, "current_price"))
                 d2 == SetField(d1, date_obj, "market_analysis",
                                <<instrument, "BIAS">>, Get(item, "final_bias"))
             IN  IF "indicators" \in DOMAIN item
                 THEN LET indicators == item["indicators"]
                          d3 == SetField(d2, date_obj, "market_analysis",
                                         <<instrument, "RSI">>, Get(indicators, "rsi_value"))
                      IN  SetField(d3, date_obj, "market_analysis",
                                   <<instrument, "MACD">>, Get(indicators, "macd_value"))
                 ELSE d2

RECURSIVE FoldMarket(_, _)
FoldMarket(dd, items) ==
    IF items = <<>> THEN dd ELSE FoldMarket(MarketStep(dd, Head(items)), Tail(items))

\* lines 181-190: xauusd_30d.json, one bar per date, the last one seen
RECURSIVE FoldXauusd(_, _)
FoldXauusd(dd, entries) ==
    IF entries = <<>> THEN dd
    ELSE LET entry == Head(entries)
             date_obj == parse_date(GetStr(entry, "time"))
             dd1 == IF date_obj # NoDate
                    THEN SetCategory(dd, date_obj, "xauusd",
                             [open |-> Get(entry, "open"), high |-> Get(entry, "high"),
                              low |-> Get(entry, "low"), close |-> Get(entry, "close")])
                    ELSE dd
         IN  FoldXauusd(dd1, Tail(entries))

\* lines 205-212: the entry appended for an event
EventEntry(event) ==
    [time |-> Get(event, "time"), currency |-> Get(event, "currency"),
     event |-> Get(event, "event"), actual |-> Get(event, "actual"),
     forecast |-> Get(event, "forecast"), previous |-> Get(event, "previous")]

\* lines 227-231: the entry appended for a headline
NewsEntry(article) ==
    [category |-> Get(article, "category"), title |-> Get(article, "title"),
     ticker |-> Get(article, "ticker")]

\* lines 246-249: the entry appended for a post
RedditEntry(post) == [title |-> Get(post, "title"), source |-> Get(post, "source")]

\* lines 199-212: economic_calendar.json
RECURSIVE FoldEvents(_, _)
FoldEvents(dd, events) ==
    IF events = <<>> THEN dd
    ELSE LET event == Head(events)
             date_obj == parse_date(GetStr(event, "date"))
             dd1 == IF date_obj # NoDate
                    THEN AppendTo(dd, date_obj, "economic_events", EventEntry(event))
                    ELSE dd
         IN  FoldEvents(dd1, Tail(events))

\* lines 221-231: news_30days.json
RECURSIVE FoldNews(_, _)
FoldNews(dd, headlines) ==
    IF headlines = <<>> THEN dd
    ELSE LET article == Head(headlines)
             date_obj == parse_date(GetStr(article, "time"))
             dd1 == IF date_obj # NoDate
                    THEN AppendTo(dd, date_obj, "news", NewsEntry(article))
                    ELSE dd
         IN  FoldNews(dd1, Tail(headlines))

\* lines 240-249: reddit_news.json
RECURSIVE FoldReddit(_, _)
FoldReddit(dd, posts) ==
    IF posts = <<>> THEN dd
    ELSE LET post == Head(posts)
             date_obj == parse_date(GetStr(post, "time"))
             dd1 == IF date_obj # NoDate
                    THEN AppendTo(dd, date_obj, "reddit", RedditEntry(post))
                    ELSE dd
         IN  FoldReddit(dd1, Tail(posts))

\* the records of a file, none when the file does not exist
FileOr(input, name, default) == IF name \in DOMAIN input THEN input[name] ELSE default

\* lines 88-190: the three files of numbers
FoldNumbers(input) ==
    FoldXauusd(FoldMarket(FoldFundamentals(<<>>, FileOr(input, "fundamentals_data", <<>>)),
                          FileOr(input, "market_analysis", <<>>)),
               FileOr(input, "xauusd_30d", <<>>))

\* lines 77-251: the files are read in a fixed order into one date_data
extract_all_dates_and_data(input) ==
    FoldReddit(FoldNews(FoldEvents(FoldNumbers(input),
                                   Series(FileOr(input, "economic_calendar", <<>>), "events")),
                        Series(FileOr(input, "news_30days", <<>>), "headlines")),
               Series(FileOr(input, "reddit_news", <<>>), "posts"))

(***************************************************************************)
(* snapshots.py: clean_snapshot_data, extract_monthly_inflation_data, main   *)
(***************************************************************************)
\* clean_snapshot_data returning the record as it is
clean_snapshot_data_KeepAll(data) == data

\* lines 253-270.  Every value of a per-date record is a dict or a list, and
\* the empty dict and the empty list are both the empty function.
clean_snapshot_data(data) ==
    [key \in {k \in DOMAIN data : DOMAIN data[k] # {}} |-> data[key]]

\* line 317: timedelta(days=30)
RetentionDays == 30

SnapshotPrefix == <<"s", "n", "a", "p", "s", "h", "o", "t", "_">>

JsonSuffix == <<".", "j", "s", "o", "n">>

InflationFile ==
    <<"i", "n", "f", "l", "a", "t", "i", "o", "n", "_", "d", "a", "t", "a">> \o JsonSuffix

\* f"snapshot_{current_date.isoformat()}.json"
SnapshotName(d) == SnapshotPrefix \o IsoFormat(d) \o JsonSuffix

\* output_path.glob("snapshot_*.json")
IsSnapshotFile(name) ==
    /\ Len(name) >= Len(SnapshotPrefix) + Len(JsonSuffix)
    /\ StartsWith(name, SnapshotPrefix)
    /\ EndsWith(name, JsonSuffix)

\* lines 325-326: the date in a file name, NoDate when strptime raises
FileDate(name) ==
    LET stem == SubSeq(name, 1, Len(name) - Len(JsonSuffix))
    IN  StrptimeDate(RemoveAll(stem, SnapshotPrefix))

\* DeleteOld leaving the loop after its first unlink
DeleteOld_FirstOnly(folder, cutoff_date) ==
    LET old == {n \in DOMAIN folder :
                  IsSnapshotFile(n) /\ FileDate(n) # NoDate /\ FileDate(n) < cutoff_date}
        first == {n \in old : \A m \in old : FileDate(n) <= FileDate(m)}
    IN  [name \in (DOMAIN folder) \ first |-> folder[name]]

\* lines 322-333: unlink every snapshot file dated before the cutoff
DeleteOld(folder, cutoff_date) ==
    [name \in {n \in DOMAIN folder :
                 ~(IsSnapshotFile(n) /\ FileDate(n) # NoDate /\ FileDate(n) < cutoff_date)}
        |-> folder[name]]

\* lines 38-75; the empty function when fundamentals_data.json does not exist
Indicators(input) ==
    IF "fundamentals_data" \notin DOMAIN input THEN <<>>
    ELSE LET data == input["fundamentals_data"]
             keys == {monthly_keys[i] : i \in 1..Len(monthly_keys)} \cup {"REAL_RATE"}
         IN  [key \in {k \in keys : k \in DOMAIN data} |->
                 [data |-> data[key], end_date |-> GetStr(data, EndDateKey(key))]]

\* lines 287-292: inflation_data.json is written when there is an indicator
WriteInflation(folder, input, now) ==
    IF DOMAIN Indicators(input) = {} THEN folder
    ELSE DictSet(folder, InflationFile,
                 [generated_at |-> now, indicators |-> Indicators(input)])

SetMin(S) == CHOOSE x \in S : \A y \in S : x <= y

SetMax(S) == CHOOSE x \in S : \A y \in S : x >= y

\* lines 344-367: the loop "while current_date <= newest_date"; out is the
\* folder together with the set of dates written so far
RECURSIVE GenerateLoop(_, _, _, _, _)
GenerateLoop(out, date_data, current_date, newest_date, now) ==
    IF current_date > newest_date THEN out
    ELSE LET cleaned_data == IF current_date \in DOMAIN date_data
                             THEN clean_snapshot_data(date_data[current_date])
                             ELSE <<>>
             snapshot == [date |-> IsoFormat(current_date),
                          snapshot_generated_at |-> now,
                          data |-> cleaned_data]
             out1 == IF current_date \in DOMAIN date_data /\ DOMAIN cleaned_data # {}
                     THEN [folder |-> DictSet(out.folder, SnapshotName(current_date), snapshot),
                           written |-> out.written \cup {current_date}]
                     ELSE out
         IN  GenerateLoop(out1, date_data, current_date + 1, newest_date, now)

\* StartDate without the cutoff: the loop starts at the oldest data date
StartDate_Oldest(cutoff_date, oldest_date) == oldest_date

\* line 341
StartDate(cutoff_date, oldest_date) ==
    IF cutoff_date >= oldest_date THEN cutoff_date ELSE oldest_date

\* lines 300-367: main() once the inflation file is written (folder f1) and
\* the timeline is built: nothing more without data (lines 300-302), else
\* the cutoff, the delete loop and the generation loop
Snapshots(f1, date_data, today, now) ==
    IF DOMAIN date_data = {} THEN [folder |-> f1, written |-> {}]
    ELSE GenerateLoop([folder |-> DeleteOld(f1, today - RetentionDays), written |-> {}],
                      date_data,
                      StartDate(today - RetentionDays, SetMin(DOMAIN date_data)),
                      SetMax(DOMAIN date_data), now)

\* lines 272-375: one run of main().  today is the date and now the reading of
\* datetime.now(); the result is the output folder and the dates written.
main(folder, input_exists, input, today, now) ==
    IF ~input_exists THEN [folder |-> folder, written |-> {}]
    ELSE Snapshots(WriteInflation(folder, input, now), extract_all_dates_and_data(input),
                   today, now)

(***************************************************************************)
(* newsentiment.py: filter_timeframe, dedup_by_category,                     *)
(* dedup_across_timeframes, NewsSentimentLayer.run                           *)
(*                                                                           *)
(* A datetime is a whole number of hours since the epoch; an item is the     *)
(* record [category, ticker, title, timestamp] that fetch_finviz builds      *)
(* (its 'time' field is timestamp.isoformat()).                              *)
(***************************************************************************)
\* hours in a day: now.replace(hour=0, minute=0, second=0, microsecond=0)
HoursPerDay == 24

\* line 285
StartOfDay(t) == t - (t % HoursPerDay)

\* where list.sort(key=timestamp) puts x among the sorted items: after every
\* item that is not later (the sort is stable)
InsertByTimestamp(sorted, x) ==
    LET k == Cardinality({i \in 1..Len(sorted) : sorted[i].timestamp <= x.timestamp})
    IN  SubSeq(sorted, 1, k) \o <<x>> \o SubSeq(sorted, k + 1, Len(sorted))

\* list.sort(key=lambda x: x['timestamp'])
RECURSIVE SortByTimestamp(_)
SortByTimestamp(items) ==
    IF items = <<>> THEN <<>>
    ELSE InsertByTimestamp(SortByTimestamp(SubSeq(items, 1, Len(items) - 1)),
                           items[Len(items)])

\* filter_timeframe whose day window is counted back from now, not midnight
filter_timeframe_FromNow(news, t, hours, days) ==
    IF hours # 0
    THEN LET Keep(n) == n.timestamp >= t - hours
         IN  SortByTimestamp(SelectSeq(news, Keep))
    ELSE IF days # 0
    THEN LET Keep(n) == t - days * HoursPerDay <= n.timestamp /\ n.timestamp < t
         IN  SortByTimestamp(SelectSeq(news, Keep))
    ELSE news

\* lines 278-292, called at clock reading t; hours = 0 and days = 0 stand
\* for the default None (both fail "if hours:" and "elif days:")
filter_timeframe(news, t, hours, days) ==
    IF hours # 0
    THEN LET cutoff == t - hours
             Keep(n) == n.timestamp >= cutoff
         IN  SortByTimestamp(SelectSeq(news, Keep))
    ELSE IF days # 0
    THEN LET today_start == StartOfDay(t)
             cutoff == today_start - days * HoursPerDay
             Keep(n) == cutoff <= n.timestamp /\ n.timestamp < today_start
         IN  SortByTimestamp(SelectSeq(news, Keep))
    ELSE news

\* lines 1133-1137: the parsed timestamp of a post, or datetime.now() (read at
\* t_fallback, after the caller's own read) when fromisoformat raises
_parse_time(timestamp, t_fallback) ==
    IF timestamp.kind = "bad" THEN [kind |-> "naive", t |-> t_fallback] ELSE timestamp

\* lines 1120-1131 of SocialSentimentLayer; comparing an aware datetime with
\* the naive cutoff raises TypeError
_filter_timeframe(posts, t, hours, days, t_fallback) ==
    LET Parsed(p) == _parse_time(p.timestamp, t_fallback)
        raises == \E i \in 1..Len(posts) : Parsed(posts[i]).kind = "aware"
    IN  IF hours # 0
        THEN LET cutoff == t - hours
                 Keep(p) == Parsed(p).t >= cutoff
             IN  IF raises THEN [raised |-> TRUE, posts |-> <<>>]
                 ELSE [raised |-> FALSE, posts |-> SelectSeq(posts, Keep)]
        ELSE IF days # 0
        THEN LET today_start == StartOfDay(t)
                 cutoff == today_start - days * HoursPerDay
                 Keep(p) == cutoff <= Parsed(p).t /\ Parsed(p).t < today_start
             IN  IF raises THEN [raised |-> TRUE, posts |-> <<>>]
                 ELSE [raised |-> FALSE, posts |-> SelectSeq(posts, Keep)]
        ELSE [raised |-> FALSE, posts |-> posts]

\* the distinct elements of a sequence, in order of first appearance (the key
\* order of a dict filled while scanning the sequence)
RECURSIVE Distinct(_)
Distinct(s) ==
    IF s = <<>> THEN <<>>
    ELSE LET r == Distinct(SubSeq(s, 1, Len(s) - 1))
         IN  IF Contains(r, s[Len(s)]) THEN r ELSE Append(r, s[Len(s)])

\* s1 + s2 + ... for a sequence of sequences
RECURSIVE Flatten(_)
Flatten(ss) == IF ss = <<>> THEN <<>> ELSE Head(ss) \o Flatten(Tail(ss))

\* KeepEarliest without the sort: the duplicate met first is kept
KeepEarliest_First(duplicates) == <<duplicates[1]>>

\* KeepEarliest keeping every duplicate
KeepEarliest_All(duplicates) == SortByTimestamp(duplicates)

\* lines 199-201: the duplicates of one title, sorted; the first one is kept
KeepEarliest(duplicates) == <<SortByTimestamp(duplicates)[1]>>

\* lines 180-205
dedup_by_category(news) ==
    LET cats == Distinct([i \in 1..Len(news) |-> news[i].category])
        ItemsOf(category) ==
            LET InCat(item) == item.category = category IN SelectSeq(news, InCat)
        DedupCategory(category) ==
            LET items == ItemsOf(category)
                titles == Distinct([i \in 1..Len(items) |-> items[i].title])
                Duplicates(title) ==
                    LET Has(item) == item.title = title IN SelectSeq(items, Has)
            IN  Flatten([j \in 1..Len(titles) |-> KeepEarliest(Duplicates(titles[j]))])
    IN  Flatten([c \in 1..Len(cats) |-> DedupCategory(cats[c])])

\* "if x in lst: lst.remove(x)": drop the first element equal to x
RemoveFirst(lst, x) ==
    LET i == FirstIndex(lst, {x})
    IN  IF i = 0 THEN lst ELSE SubSeq(lst, 1, i - 1) \o SubSeq(lst, i + 1, Len(lst))

\* lines 210-217: the occurrences of a title, scanning 30D, 7D, 24H in turn
OccurrencesIn(tfs, tf_name, title) ==
    IF tf_name \notin DOMAIN tfs THEN <<>>
    ELSE LET Has(item) == item.title = title
             found == SelectSeq(tfs[tf_name], Has)
         IN  [i \in 1..Len(found) |-> [tf |-> tf_name, item |-> found[i]]]

Occurrences(tfs, title) ==
    OccurrencesIn(tfs, "30D", title) \o OccurrencesIn(tfs, "7D", title)
        \o OccurrencesIn(tfs, "24H", title)

\* lines 230-234 (and 237-241, 244-248): remove from bucket tf every
\* occurrence recorded for it
RECURSIVE RemoveOccurrences(_, _, _)
RemoveOccurrences(tfs, occurrences, tf) ==
    IF occurrences = <<>> THEN tfs
    ELSE LET occ == Head(occurrences)
             tfs1 == IF occ.tf = tf THEN [tfs EXCEPT ![tf] = RemoveFirst(@, occ.item)]
                     ELSE tfs
         IN  RemoveOccurrences(tfs1, Tail(occurrences), tf)

\* DedupTitle without its third rule (7D and 30D, not 24H)
DedupTitle_NoThirdRule(tfs, occurrences) ==
    IF Len(occurrences) <= 1 THEN tfs
    ELSE LET tfs_present == {occurrences[i].tf : i \in 1..Len(occurrences)}
             t1 == IF "24H" \in tfs_present /\ "7D" \in tfs_present
                   THEN RemoveOccurrences(tfs, occurrences, "7D") ELSE tfs
         IN  IF "24H" \in tfs_present /\ "30D" \in tfs_present
             THEN RemoveOccurrences(t1, occurrences, "30D") ELSE t1

\* lines 223-248, one pass of "for title, occurrences in all_titles.items()"
DedupTitle(tfs, occurrences) ==
    IF Len(occurrences) <= 1 THEN tfs
    ELSE LET tfs_present == {occurrences[i].tf : i \in 1..Len(occurrences)}
             t1 == IF "24H" \in tfs_present /\ "7D" \in tfs_present
                   THEN RemoveOccurrences(tfs, occurrences, "7D") ELSE tfs
             t2 == IF "24H" \in tfs_present /\ "30D" \in tfs_present
                   THEN RemoveOccurrences(t1, occurrences, "30D") ELSE t1
         IN  IF "7D" \in tfs_present /\ "30D" \in tfs_present /\ "24H" \notin tfs_present
             THEN RemoveOccurrences(t2, occurrences, "30D") ELSE t2

\* the titles of the buckets
TitlesOf(items) == [i \in 1..Len(items) |-> items[i].title]

\* the keys of all_titles, in insertion order
TitleOrder(tfs) == Distinct(TitlesOf(tfs["30D"]) \o TitlesOf(tfs["7D"]) \o TitlesOf(tfs["24H"]))

\* lines 207-251; all_titles is built from the buckets as they were passed in
RECURSIVE DedupTitles(_, _, _)
DedupTitles(tfs, all_titles, titles) ==
    IF titles = <<>> THEN tfs
    ELSE DedupTitles(DedupTitle(tfs, Occurrences(all_titles, Head(titles))),
                     all_titles, Tail(titles))

dedup_across_timeframes(tfs) == DedupTitles(tfs, tfs, TitleOrder(tfs))

\* the dict of buckets, keyed '30D', '7D', '24H'
Buckets(b30, b7, b24) ==
    [tf \in {"30D", "7D", "24H"} |->
        IF tf = "30D" THEN b30 ELSE IF tf = "7D" THEN b7 ELSE b24]

NoBuckets == Buckets(<<>>, <<>>, <<>>)

\* lines 395-397: days=30, days=7, hours=24
Days30 == 30

Days7 == 7

Hours24 == 24

\* lines 388-411 of NewsSentimentLayer.run: the three buckets as filtered (each
\* call of filter_timeframe reads the clock itself: t30 <= t7 <= t24), after
\* the cross-timeframe stage, and after the per-category stage and its sort
run(news, t30, t7, t24) ==
    IF news = <<>>
    THEN [timeframes |-> NoBuckets, crossed |-> NoBuckets, output |-> NoBuckets]
    ELSE LET tfs == Buckets(filter_timeframe(news, t30, 0, Days30),
                            filter_timeframe(news, t7, 0, Days7),
                            filter_timeframe(news, t24, Hours24, 0))
             cross == dedup_across_timeframes(tfs)
         IN  [timeframes |-> tfs,
              crossed |-> cross,
              output |-> [tf \in DOMAIN cross |->
                             SortByTimestamp(dedup_by_category(cross[tf]))]]

(***************************************************************************)
(* State                                                                     *)
(***************************************************************************)
VARIABLES
    files,          \* Fetchers/jsons: file name -> parsed JSON
    input_exists,   \* whether the folder Fetchers/jsons exists
    folder,         \* TEXT/daily_snapshots: file name -> content
    today,          \* datetime.now().date()
    clock,          \* datetime.now(), one tick per run
    date_data,      \* the timeline returned by extract_all_dates_and_data
    last,           \* the last run of main(): what it found and what it wrote
    all_news,       \* the items fetch_all returned
    now,            \* datetime.now() of the news layer, in hours
    timeframes,     \* the buckets 30D, 7D, 24H before the cross-timeframe stage
    crossed,        \* the buckets after dedup_across_timeframes
    output,         \* the buckets after dedup_by_category
    call            \* the last direct call of filter_timeframe: arguments and result

snapVars == <<files, input_exists, folder, today, clock, date_data, last>>

newsVars == <<all_news, now, timeframes, crossed, output, call>>

vars == <<files, input_exists, folder, today, clock, date_data, last,
          all_news, now, timeframes, crossed, output, call>>

NotRun == [ran |-> FALSE, repeat |-> FALSE, before |-> <<>>, written |-> {}]

NoCall == [op |-> "none"]

NewsIdle ==
    /\ all_news = <<>>
    /\ now = 0
    /\ timeframes = NoBuckets
    /\ crossed = NoBuckets
    /\ output = NoBuckets
    /\ call = NoCall

SnapIdle ==
    /\ files = <<>>
    /\ input_exists = TRUE
    /\ folder = <<>>
    /\ today = 0
    /\ clock = 0
    /\ date_data = <<>>
    /\ last = NotRun

(***************************************************************************)
(* Bounds and inputs of the snapshot generator                               *)
(***************************************************************************)
MaxBars == 2

MaxInitFiles == 2

MaxRuns == 3

MaxDays == 1

\* the first "today" of a behaviour: 10 March 2024
Today0 == Ordinal(2024, 3, 10)

TimeOfDay == <<"0", "9", ":", "3", "0", ":", "0", "0">>

Garbage == <<"n", "/", "a">>

\* the times of the price bars: before the cutoff, on it, inside the window
\* (as a datetime), after today, and one that does not parse
BarTimes ==
    <<IsoFormat(Today0 - 45), IsoFormat(Today0 - 30),
      IsoFormat(Today0 - 3) \o <<"T">> \o TimeOfDay, IsoFormat(Today0 + 2), Garbage>>

Bar(t) == [time |-> t, open |-> "2300", high |-> "2320", low |-> "2290", close |-> "2315"]

\* the bars at the times chosen by the index set I, in the order of BarTimes
BarsAt(I) ==
    LET Chosen(b) == \E i \in I : b = Bar(BarTimes[i])
    IN  SelectSeq([i \in 1..Len(BarTimes) |-> Bar(BarTimes[i])], Chosen)

BarSeqs ==
    {BarsAt(I) : I \in {J \in SUBSET (1..Len(BarTimes)) : Cardinality(J) <= MaxBars}}

CpiSeries == <<[date |-> IsoFormat(Today0 - 40), value |-> "310.3"]>>

SnapFundamentals ==
    [CPI |-> CpiSeries, CPI_END_DATE |-> IsoFormat(Today0 - 40)]

SnapInputs ==
    {[xauusd_30d |-> b] : b \in BarSeqs}
        \cup {[xauusd_30d |-> b, fundamentals_data |-> SnapFundamentals] : b \in BarSeqs}
        \cup {<<>>}

StaleData == [reddit |-> <<[title |-> "old post", source |-> "reddit"]>>]

\* snapshot files an earlier run may have left, a file whose name strptime
\* reads as 5 January 2024, and a file whose name holds no date
InitFileNames ==
    {SnapshotName(Today0 - 45), SnapshotName(Today0 - 30), SnapshotName(Today0 - 3),
     SnapshotPrefix \o <<"2", "0", "2", "4", "-", "1", "-", "5">> \o JsonSuffix,
     SnapshotPrefix \o <<"l", "a", "t", "e", "s", "t">> \o JsonSuffix}

InitFolders ==
    {[n \in S |-> [date |-> RemoveAll(SubSeq(n, 1, Len(n) - Len(JsonSuffix)), SnapshotPrefix),
                   snapshot_generated_at |-> 0,
                   data |-> StaleData]] :
        S \in {T \in SUBSET InitFileNames : Cardinality(T) <= MaxInitFiles}}

(***************************************************************************)
(* The snapshot generator                                                    *)
(***************************************************************************)
InitSnap ==
    /\ files \in SnapInputs
    /\ input_exists \in BOOLEAN
    /\ folder \in InitFolders
    /\ today = Today0
    /\ clock = 0
    /\ date_data = <<>>
    /\ last = NotRun
    /\ NewsIdle

\* python snapshots.py
Main ==
    /\ clock < MaxRuns
    /\ \E r \in {main(folder, input_exists, files, today, clock + 1)} :
           /\ folder' = r.folder
           /\ last' = [ran |-> TRUE, repeat |-> last.ran, before |-> folder,
                       written |-> r.written]
    /\ clock' = clock + 1
    /\ UNCHANGED <<files, input_exists, today, date_data>>
    /\ UNCHANGED newsVars

\* midnight passes
NextDay ==
    /\ today < Today0 + MaxDays
    /\ today' = today + 1
    /\ last' = NotRun
    /\ UNCHANGED <<files, input_exists, folder, clock, date_data>>
    /\ UNCHANGED newsVars

NextSnap == Main \/ NextDay

SpecSnap == InitSnap /\ [][NextSnap]_vars

(***************************************************************************)
(* Properties of the snapshot generator                                      *)
(***************************************************************************)
SnapshotFiles(f) == {n \in DOMAIN f : IsSnapshotFile(n)}

\* the snapshot artifacts that carry a date in their file name
DatedFiles(f) == {n \in SnapshotFiles(f) : FileDate(n) # NoDate}

\* what a snapshot artifact retains: its name, its date and its data payload
Retained(f) == {<<n, f[n].date, f[n].data>> : n \in SnapshotFiles(f)}

\* the timeline of the current source files
Timeline == extract_all_dates_and_data(files)

\* the snapshot files stamped by the run that just ended
Stamped == {n \in SnapshotFiles(folder) : folder[n].snapshot_generated_at = clock}

\* C1 (as claimed): after any run of main() over an existing input folder,
\* whatever the source data was (including a run that finds no dated data at
\* all), no snapshot artifact whose file-name date is strictly older than
\* today minus 30 days remains in the output folder.
C1_NoOldArtifactAfterRun ==
    (last.ran /\ input_exists) =>
        \A n \in DatedFiles(folder) : FileDate(n) >= today - RetentionDays

\* C6: a second run in succession, with the same source files and the same
\* today, leaves the same retained snapshot artifacts (names, dates, data
\* payloads) as the first one did.
C6_RunTwiceSameRetained ==
    (last.ran /\ last.repeat) => Retained(folder) = Retained(last.before)

C6_Witness ==
    /\ last.ran /\ last.repeat
    /\ last.written # {}
    /\ \E n \in DatedFiles(folder) : folder[n].data = StaleData
    /\ \E n \in Stamped : n \in DOMAIN last.before
                          /\ last.before[n].snapshot_generated_at = clock - 1

\* C7: a run writes a snapshot for exactly the dates d with
\* max(today - 30, oldest data date) <= d <= newest data date whose timeline
\* record is non-empty, each holding that date's cleaned record, and writes
\* nothing for a date without data.
C7_WritesExactlyTheWindow ==
    last.ran =>
        LET dates == DOMAIN Timeline
            expected == IF ~input_exists \/ dates = {} THEN {}
                        ELSE {d \in dates :
                                /\ d >= today - RetentionDays
                                /\ d >= SetMin(dates)
                                /\ d <= SetMax(dates)
                                /\ DOMAIN clean_snapshot_data(Timeline[d]) # {}}
        IN  /\ last.written = expected
            /\ Stamped = {SnapshotName(d) : d \in expected}
            /\ \A d \in expected :
                   folder[SnapshotName(d)].data = clean_snapshot_data(Timeline[d])

C7_Witness ==
    /\ last.ran
    /\ last.written # {}
    /\ \E d \in DOMAIN Timeline : d < today - RetentionDays
    /\ \E d \in (SetMin(last.written) + 1)..(SetMax(last.written) - 1) :
           d \notin DOMAIN Timeline /\ SnapshotName(d) \notin DOMAIN folder

\* C8 (as claimed): after a run that found dated data, the snapshot artifacts
\* dated inside the trailing 30-day window are exactly those the run produced
\* from the current source data; none written earlier survives there for a
\* date that has no data in the current sources.
C8_WindowFullyRegenerated ==
    (last.ran /\ input_exists /\ DOMAIN Timeline # {}) =>
        {n \in DatedFiles(folder) : FileDate(n) >= today - RetentionDays} = Stamped

(***************************************************************************)
(* The timeline builder on its own                                           *)
(***************************************************************************)
MaxTicks == 2

\* 5 and 6 March 2024
Day1 == Ordinal(2024, 3, 5)

Day2 == Ordinal(2024, 3, 6)

\* 05/03/2024
Day1Slashed == <<"0", "5", "/", "0", "3", "/", "2", "0", "2", "4">>

TickTimes ==
    {IsoFormat(Day1) \o <<"T">> \o TimeOfDay, IsoFormat(Day1) \o <<" ">> \o TimeOfDay,
     IsoFormat(Day2), Garbage}

\* the payload of a tick: two with an indicators block, one without
TickBodies ==
    {[current_price |-> "2310.5", final_bias |-> "bullish",
      indicators |-> [rsi_value |-> "61.2", macd_value |-> "1.4"]],
     [current_price |-> "2298.0", final_bias |-> "bearish",
      indicators |-> [rsi_value |-> "38.9", macd_value |-> "-0.7"]],
     [current_price |-> "2305.1", final_bias |-> "neutral"]}

\* a tick: a body with a timestamp and, or not, an instrument
Ticks ==
    {DictSet(b, "timestamp", t) : b \in TickBodies, t \in TickTimes}
        \cup {DictSet(DictSet(b, "timestamp", t), "instrument", "XAUUSD") :
                b \in TickBodies, t \in TickTimes}

\* the sequences over S of length at most n
SeqsUpTo(S, n) == UNION {[1..k -> S] : k \in 0..n}

MarketInputs == {[market_analysis |-> m] : m \in SeqsUpTo(Ticks, MaxTicks)}

Observations(d) == <<[date |-> IsoFormat(d - 31), value |-> "3.1"],
                     [date |-> IsoFormat(d), value |-> "3.2"]>>

\* with(d, k, S): the dicts d extended by key k with each value of S, and d itself
With(D, k, S) == D \cup {DictSet(d, k, v) : d \in D, v \in S}

\* fundamentals_data.json: monthly series with and without a usable end date,
\* next to a daily series, an ETF series and the real rate
FundamentalsInputs ==
    LET f1 == With({<<>>}, "CPI", {<<>>, Observations(Day1)})
        f2 == With(f1, "CPI_END_DATE", {IsoFormat(Day1), Day1Slashed, Garbage})
        f3 == With(f2, "PCE", {Observations(Day2)})
        f4 == With(f3, "PCE_END_DATE", {IsoFormat(Day2), IsoFormat(Day1)})
        f5 == With(f4, "TREASURY_10Y", {Observations(Day1)})
        f6 == With(f5, "GLD", {<<[date |-> IsoFormat(Day2), close |-> "212.4",
                                  volume |-> "8100000"]>>})
        f7 == With(f6, "REAL_RATE", {"1.85"})
        f8 == With(f7, "REAL_RATE_END_DATE", {IsoFormat(Day1)})
    IN  {[fundamentals_data |-> f] : f \in f8}

\* the longest list of records in a file of events, headlines or posts, and
\* the longest daily or weekly series
MaxRecords == 2

\* dates as the three text files write them: 05/03/2024 in the calendar, ISO
\* with or without a time elsewhere; Garbage parses to nothing
RecordDates == {IsoFormat(Day1), Day1Slashed, IsoFormat(Day2) \o <<"T">> \o TimeOfDay, Garbage}

Events ==
    {[date |-> d, event |-> e, currency |-> "USD"] : d \in RecordDates, e \in {"CPI m/m", "FOMC"}}
        \cup {[event |-> "NFP", currency |-> "USD"]}

Headlines ==
    {[time |-> d, title |-> "Gold rallies", category |-> "gold", ticker |-> "GLD"] :
        d \in RecordDates}

Posts == {[time |-> d, title |-> "Gold to the moon", source |-> "reddit"] : d \in RecordDates}

\* economic_calendar.json, news_30days.json and reddit_news.json
ListInputs ==
    {[economic_calendar |-> [events |-> e]] : e \in SeqsUpTo(Events, MaxRecords)}
        \cup {[news_30days |-> [headlines |-> h], reddit_news |-> [posts |-> q]] :
                h \in SeqsUpTo(Headlines, MaxRecords), q \in SeqsUpTo(Posts, 1)}

\* the entries of a daily, weekly or ETF series: dated, badly dated, undated
SeriesEntries ==
    {[date |-> d, value |-> v, close |-> v, volume |-> "8100000"] :
        d \in {IsoFormat(Day1), IsoFormat(Day2), Garbage}, v \in {"4.21", "4.25"}}
        \cup {[value |-> "4.30", close |-> "4.30", volume |-> "8100000"]}

\* fundamentals_data.json with one daily, one weekly or one ETF series
SeriesInputs ==
    {[fundamentals_data |-> DictSet(<<>>, key, e)] :
        key \in {"TREASURY_10Y", "JOBLESS_CLAIMS", "IAU"},
        e \in SeqsUpTo(SeriesEntries, MaxRecords)}

TimelineInputs == MarketInputs \cup FundamentalsInputs \cup ListInputs \cup SeriesInputs

InitTimeline ==
    /\ files \in TimelineInputs
    /\ input_exists = TRUE
    /\ folder = <<>>
    /\ today = Today0
    /\ clock = 0
    /\ date_data = <<>>
    /\ last = NotRun
    /\ NewsIdle

\* date_data = extract_all_dates_and_data(input_path)
Extract ==
    /\ ~last.ran
    /\ date_data' = extract_all_dates_and_data(files)
    /\ last' = [NotRun EXCEPT !.ran = TRUE]
    /\ UNCHANGED <<files, input_exists, folder, today, clock>>
    /\ UNCHANGED newsVars

NextTimeline == Extract

SpecTimeline == InitTimeline /\ [][NextTimeline]_vars

\* the market-analysis ticks of the source, in source order
MarketTicks == FileOr(files, "market_analysis", <<>>)

\* the positions of the ticks of instrument i that resolve to date d
TicksOf(i, d) ==
    {k \in 1..Len(MarketTicks) :
        Instrument(MarketTicks[k]) = i /\ parse_date(GetStr(MarketTicks[k], "timestamp")) = d}

\* C9 (as claimed): when several ticks of one instrument resolve to the same
\* date, PRICE, BIAS, RSI and MACD stored for that instrument and date all come
\* from the last such tick in source order, also when that tick has no
\* indicators block (its RSI and MACD are then absent).
C9_AllFieldsFromLastTick ==
    last.ran =>
        \A d \in DOMAIN date_data :
            \A i \in {Instrument(MarketTicks[k]) : k \in 1..Len(MarketTicks)} :
                TicksOf(i, d) # {} =>
                    LET t == MarketTicks[SetMax(TicksOf(i, d))]
                        ma == date_data[d].market_analysis
                        ind == IF "indicators" \in DOMAIN t THEN t["indicators"] ELSE <<>>
                    IN  /\ ma[<<i, "PRICE">>] = Get(t, "current_price")
                        /\ ma[<<i, "BIAS">>] = Get(t, "final_bias")
                        /\ Get(ma, <<i, "RSI">>) = Get(ind, "rsi_value")
                        /\ Get(ma, <<i, "MACD">>) = Get(ind, "macd_value")

\* the fundamentals file of the source
Fundamentals == FileOr(files, "fundamentals_data", <<>>)

\* the dates of the timeline that hold monthly indicator key
DatesHolding(key) ==
    {d \in DOMAIN date_data : key \in DOMAIN date_data[d].fundamentals}

\* C10: each monthly indicator's full series is in the timeline under exactly
\* one date, the parsed value of its {CODE}_END_DATE field, and an indicator
\* whose end-date field is absent or does not parse is under no date at all.
C10_MonthlySeriesOnEndDateOnly ==
    last.ran =>
        \A k \in 1..Len(monthly_keys) :
            LET key == monthly_keys[k]
                end == parse_date(GetStr(Fundamentals, EndDateKey(key)))
            IN  IF key \in DOMAIN Fundamentals /\ Fundamentals[key] # <<>> /\ end # NoDate
                THEN /\ DatesHolding(key) = {end}
                     /\ date_data[end].fundamentals[key] = Fundamentals[key]
                ELSE DatesHolding(key) = {}

C10_Witness ==
    /\ last.ran
    /\ DatesHolding("CPI") = {Day1}
    /\ Len(date_data[Day1].fundamentals["CPI"]) = 2
    /\ GetStr(Fundamentals, "CPI_END_DATE") = Day1Slashed
    /\ "PCE" \in DOMAIN Fundamentals
    /\ "PCE_END_DATE" \notin DOMAIN Fundamentals
    /\ DatesHolding("PCE") = {}
    /\ (Day1 - 31) \in DOMAIN date_data

\* the records of a list whose date field resolves to date d, in source order
RecordsOn(records, field, d) ==
    LET On(r) == parse_date(GetStr(r, field)) = d
    IN  SelectSeq(records, On)

SourceEvents == Series(FileOr(files, "economic_calendar", <<>>), "events")

SourceHeadlines == Series(FileOr(files, "news_30days", <<>>), "headlines")

SourcePosts == Series(FileOr(files, "reddit_news", <<>>), "posts")

\* the list of a category under a date of the timeline, empty without the date
ListAt(d, cat) == IF d \in DOMAIN date_data THEN date_data[d][cat] ELSE <<>>

\* C11: for events, headlines and posts the fold appends and never overwrites:
\* the list under each date holds one entry for every source record whose
\* date resolves to it, in source order, so it is as long as those records are
\* many.
C11_ListsKeepEveryRecord ==
    last.ran =>
        \A d \in DOMAIN date_data \cup {Day1, Day2} :
            LET events == RecordsOn(SourceEvents, "date", d)
                headlines == RecordsOn(SourceHeadlines, "time", d)
                posts == RecordsOn(SourcePosts, "time", d)
            IN  /\ ListAt(d, "economic_events") =
                       [i \in 1..Len(events) |-> EventEntry(events[i])]
                /\ ListAt(d, "news") = [i \in 1..Len(headlines) |-> NewsEntry(headlines[i])]
                /\ ListAt(d, "reddit") = [i \in 1..Len(posts) |-> RedditEntry(posts[i])]

\* two events of the same day, written 05/03/2024 and 2024-03-05, both kept
C11_Witness ==
    /\ last.ran
    /\ Len(SourceEvents) = 2
    /\ GetStr(SourceEvents[1], "date") = Day1Slashed
    /\ GetStr(SourceEvents[2], "date") = IsoFormat(Day1)
    /\ SourceEvents[1].event # SourceEvents[2].event
    /\ Len(date_data[Day1].economic_events) = 2
    /\ date_data[Day1].economic_events[2].event = SourceEvents[2].event

\* the records of a list whose date field parse_date resolves
Resolvable(records, field) ==
    LET Ok(r) == parse_date(GetStr(r, field)) # NoDate
    IN  SelectSeq(records, Ok)

\* the keys of fundamentals_data.json that hold dated series (lines 96-125)
SeriesKeys == {"TREASURY_10Y", "HY_CREDIT_SPREAD", "GLD", "IAU", "JOBLESS_CLAIMS"}

\* the source files without the records whose date does not resolve
WithoutBadRecords(input) ==
    [name \in DOMAIN input |->
        CASE name = "fundamentals_data" ->
                 [k \in DOMAIN input[name] |->
                     IF k \in SeriesKeys THEN Resolvable(input[name][k], "date")
                     ELSE input[name][k]]
          [] name = "economic_calendar" ->
                 [events |-> Resolvable(Series(input[name], "events"), "date")]
          [] name = "news_30days" ->
                 [headlines |-> Resolvable(Series(input[name], "headlines"), "time")]
          [] name = "reddit_news" ->
                 [posts |-> Resolvable(Series(input[name], "posts"), "time")]
          [] OTHER -> input[name]]

\* C12: a record whose date parse_date cannot resolve is dropped and changes
\* nothing: the timeline is the one the same files give without such records.
C12_BadRecordsChangeNothing ==
    last.ran => date_data = extract_all_dates_and_data(WithoutBadRecords(files))

\* a series whose first entry has an unparseable date and whose second is kept
C12_Witness ==
    /\ last.ran
    /\ "TREASURY_10Y" \in DOMAIN Fundamentals
    /\ Len(Fundamentals["TREASURY_10Y"]) = 2
    /\ GetStr(Fundamentals["TREASURY_10Y"][1], "date") = Garbage
    /\ GetStr(Fundamentals["TREASURY_10Y"][2], "date") = IsoFormat(Day2)
    /\ DOMAIN date_data = {Day2}
    /\ date_data[Day2].fundamentals["TREASURY_10Y"] = Fundamentals["TREASURY_10Y"][2].value

(***************************************************************************)
(* The cross-timeframe and per-category stages on arbitrary buckets          *)
(***************************************************************************)
MaxBucket == 2

\* the first hour of day 100 of the epoch
RefHour == 100 * HoursPerDay

\* TICKERS, lines 19-24
CategoryOf(ticker) ==
    IF ticker \in {"GLD", "IAU"} THEN "gold" ELSE "market"

Item(ticker, title, timestamp) ==
    [category |-> CategoryOf(ticker), ticker |-> ticker, title |-> title,
     timestamp |-> timestamp]

\* one title carried by two items, and another title
DedupItems ==
    {Item("GLD", "Gold rallies", RefHour - 1), Item("IAU", "Gold rallies", RefHour - 50),
     Item("SPY", "Fed holds rates", RefHour - 1)}

BucketSeqs == SeqsUpTo(DedupItems, MaxBucket)

InitDedup ==
    /\ timeframes \in {Buckets(b30, b7, b24) : b30 \in BucketSeqs, b7 \in BucketSeqs,
                                               b24 \in BucketSeqs}
    /\ all_news = <<>>
    /\ now = RefHour
    /\ crossed = NoBuckets
    /\ output = NoBuckets
    /\ call = NoCall
    /\ SnapIdle

\* timeframes = self.dedup_across_timeframes(timeframes)
CrossTimeframes ==
    /\ call.op = "none"
    /\ crossed' = dedup_across_timeframes(timeframes)
    /\ call' = [op |-> "dedup_across_timeframes"]
    /\ UNCHANGED <<all_news, now, timeframes, output>>
    /\ UNCHANGED snapVars

\* deduped = self.dedup_by_category(tf_news, tf_name), for each bucket
ByCategory ==
    /\ call.op = "dedup_across_timeframes"
    /\ output' = [tf \in DOMAIN crossed |-> dedup_by_category(crossed[tf])]
    /\ call' = [op |-> "dedup_by_category"]
    /\ UNCHANGED <<all_news, now, timeframes, crossed>>
    /\ UNCHANGED snapVars

NextDedup == CrossTimeframes \/ ByCategory

SpecDedup == InitDedup /\ [][NextDedup]_vars

\* the buckets of tfs that hold an item with the title
BucketsWith(tfs, title) ==
    {tf \in DOMAIN tfs : \E i \in 1..Len(tfs[tf]) : tfs[tf][i].title = title}

\* 24H before 7D before 30D
Narrowest(S) ==
    IF "24H" \in S THEN "24H" ELSE IF "7D" \in S THEN "7D" ELSE "30D"

AllTitles(tfs) == UNION {{tfs[tf][i].title : i \in 1..Len(tfs[tf])} : tf \in DOMAIN tfs}

\* C2: after dedup_across_timeframes every title of the buckets is in exactly
\* one bucket, the narrowest (24H before 7D before 30D) of the buckets that
\* held it before the call, whatever buckets it started in and however many
\* items carried it.
C2_TitleInNarrowestBucketOnly ==
    call.op = "dedup_across_timeframes" =>
        \A title \in AllTitles(timeframes) :
            BucketsWith(crossed, title) = {Narrowest(BucketsWith(timeframes, title))}

C2_Witness ==
    /\ call.op = "dedup_across_timeframes"
    /\ BucketsWith(timeframes, "Gold rallies") = {"30D", "7D", "24H"}
    /\ BucketsWith(timeframes, "Fed holds rates") = {"30D", "7D"}
    /\ \E i, j \in 1..Len(timeframes["24H"]) :
           /\ timeframes["24H"][i].title = timeframes["24H"][j].title
           /\ timeframes["24H"][i].ticker # timeframes["24H"][j].ticker
    /\ Len(crossed["30D"]) = 0
    /\ Len(crossed["7D"]) = 1

\* whether a list holds the item
InBucket(item, items) == \E i \in 1..Len(items) : items[i] = item

\* the positions of a list that hold the (category, title) pair
PairPositions(items, category, title) ==
    {i \in 1..Len(items) : items[i].category = category /\ items[i].title = title}

\* C15: dedup_by_category returns only items of its input, and for each
\* (category, title) pair of the input exactly one item, one whose timestamp
\* is the minimum among the input items of the pair.
C15_EarliestPerCategoryTitle ==
    call.op = "dedup_by_category" =>
        \A tf \in DOMAIN crossed :
            /\ \A i \in 1..Len(output[tf]) : InBucket(output[tf][i], crossed[tf])
            /\ \A k \in 1..Len(crossed[tf]) :
                   LET category == crossed[tf][k].category
                       title == crossed[tf][k].title
                       kept == PairPositions(output[tf], category, title)
                   IN  /\ Cardinality(kept) = 1
                       /\ \A i \in kept :
                              \A j \in PairPositions(crossed[tf], category, title) :
                                  output[tf][i].timestamp <= crossed[tf][j].timestamp

\* the later of two items of one pair comes first in the bucket; the earlier is kept
C15_Witness ==
    /\ call.op = "dedup_by_category"
    /\ crossed["24H"] = <<Item("GLD", "Gold rallies", RefHour - 1),
                         Item("IAU", "Gold rallies", RefHour - 50)>>
    /\ output["24H"] = <<Item("IAU", "Gold rallies", RefHour - 50)>>

(***************************************************************************)
(* NewsSentimentLayer.run and direct calls of filter_timeframe               *)
(***************************************************************************)
MaxPool == 2

\* how far the clock may move between two reads of one run, in hours
MaxDrift == 1

\* 15:00 and 23:00 of the reference day
NowValues == {RefHour + 15, RefHour + 23}

\* item times: just before and on the 30-day cutoff, on the 7-day cutoff,
\* yesterday 23:00, today 10:00, today 15:00, today 20:00
ItemTimes ==
    {RefHour - Days30 * HoursPerDay - 1, RefHour - Days30 * HoursPerDay,
     RefHour - Days7 * HoursPerDay, RefHour - 1, RefHour + 10, RefHour + 15,
     RefHour + 20}

\* one headline under two gold tickers and a market ticker, and another one
NewsItems ==
    {Item(ticker, "Gold rallies", t) : ticker \in {"GLD", "IAU", "SPY"}, t \in ItemTimes}
        \cup {Item("GLD", "Fed holds rates", t) : t \in ItemTimes}

\* a post of the social layer; its timestamp is an ISO string, here what
\* datetime.fromisoformat makes of it: a naive datetime, an aware one (the
\* string ends in Z or a UTC offset), or a ValueError
Post(kind, t) == [title |-> "Gold to the moon", timestamp |-> [kind |-> kind, t |-> t]]

SocialPosts ==
    {<<>>, <<Post("naive", RefHour - 1)>>, <<Post("naive", RefHour + 20)>>,
     <<Post("bad", 0)>>, <<Post("aware", RefHour - 1)>>,
     <<Post("naive", RefHour - Days7 * HoursPerDay), Post("naive", RefHour + 10)>>}

InitNews ==
    /\ all_news \in SeqsUpTo(NewsItems, MaxPool)
    /\ now \in NowValues
    /\ timeframes = NoBuckets
    /\ crossed = NoBuckets
    /\ output = NoBuckets
    /\ call = NoCall
    /\ SnapIdle

\* NewsSentimentLayer.run(); the three filter_timeframe calls read the clock
\* one after the other
RunNews ==
    /\ call.op = "none"
    /\ \E t7 \in now..(now + MaxDrift) : \E t24 \in t7..(now + MaxDrift) :
           LET r == run(all_news, now, t7, t24)
           IN  /\ timeframes' = r.timeframes
               /\ crossed' = r.crossed
               /\ output' = r.output
               /\ call' = [op |-> "run", t30 |-> now, t7 |-> t7, t24 |-> t24]
    /\ UNCHANGED <<all_news, now>>
    /\ UNCHANGED snapVars

\* one call filter_timeframe(all_news, hours=..., days=...)
FilterTimeframe ==
    /\ call.op = "none"
    /\ \E hours \in {0, Hours24}, days \in {0, Days7, Days30} :
           call' = [op |-> "filter_timeframe", hours |-> hours, days |-> days,
                    result |-> filter_timeframe(all_news, now, hours, days)]
    /\ UNCHANGED <<all_news, now, timeframes, crossed, output>>
    /\ UNCHANGED snapVars

\* one call _filter_timeframe(posts, hours=..., days=...) of the social layer
SocialFilterTimeframe ==
    /\ call.op = "none"
    /\ \E posts \in SocialPosts, hours \in {0, Hours24}, days \in {0, Days7},
         t_fallback \in now..(now + MaxDrift) :
           call' = [op |-> "_filter_timeframe", hours |-> hours, days |-> days,
                    posts |-> posts, t_fallback |-> t_fallback,
                    result |-> _filter_timeframe(posts, now, hours, days, t_fallback)]
    /\ UNCHANGED <<all_news, now, timeframes, crossed, output>>
    /\ UNCHANGED snapVars

NextNews == RunNews \/ FilterTimeframe \/ SocialFilterTimeframe

SpecNews == InitNews /\ [][NextNews]_vars

\* the number of items of a list that carry the title
CountTitle(items, title) == Cardinality({i \in 1..Len(items) : items[i].title = title})

\* the number of items of a list that carry the title under the category
CountCatTitle(items, category, title) ==
    Cardinality({i \in 1..Len(items) :
                    items[i].title = title /\ items[i].category = category})

Survivors(title) ==
    CountTitle(output["30D"], title) + CountTitle(output["7D"], title)
        + CountTitle(output["24H"], title)

\* C3 (as claimed): after the deduplication of run(), a title that was in all
\* three windows is carried by exactly one surviving item, in 24H, and a title
\* that was only in 30D and 7D by exactly one surviving item, in 7D, also when
\* it was fetched under several tickers or categories.
C3_ExactlyOneSurvivor ==
    call.op = "run" =>
        \A title \in AllTitles(timeframes) :
            LET where == BucketsWith(timeframes, title)
            IN  /\ where = {"30D", "7D", "24H"} =>
                       Survivors(title) = 1 /\ CountTitle(output["24H"], title) = 1
                /\ where = {"30D", "7D"} =>
                       Survivors(title) = 1 /\ CountTitle(output["7D"], title) = 1

\* C3 (amended): such a title survives in the 24H bucket only (in the 7D
\* bucket only when it was in 30D and 7D alone), carried there by exactly one
\* item for each category under which the window held it.
C3_OneSurvivorPerCategory ==
    call.op = "run" =>
        \A title \in AllTitles(timeframes) :
            LET where == BucketsWith(timeframes, title)
                keep == Narrowest(where)
            IN  where \in {{"30D", "7D", "24H"}, {"30D", "7D"}} =>
                    /\ Survivors(title) = CountTitle(output[keep], title)
                    /\ \A category \in {"gold", "market"} :
                           CountCatTitle(output[keep], category, title) =
                               IF CountCatTitle(timeframes[keep], category, title) > 0
                               THEN 1 ELSE 0

C3_Witness ==
    /\ call.op = "run"
    /\ BucketsWith(timeframes, "Gold rallies") = {"30D", "7D", "24H"}
    /\ CountCatTitle(timeframes["24H"], "gold", "Gold rallies") = 1
    /\ CountCatTitle(timeframes["24H"], "market", "Gold rallies") = 1
    /\ Survivors("Gold rallies") = 2

\* C4 (as claimed): the buckets filter_timeframe builds from one pool are
\* nested: every 24H item is in the 7D bucket and every 7D item is in the 30D
\* bucket.
C4_BucketsNested ==
    call.op = "run" =>
        /\ \A i \in 1..Len(timeframes["24H"]) :
               InBucket(timeframes["24H"][i], timeframes["7D"])
        /\ \A i \in 1..Len(timeframes["7D"]) :
               InBucket(timeframes["7D"][i], timeframes["30D"])

\* C4 (amended): when the three calls of a run fall on the same calendar day,
\* every 7D item is in the 30D bucket, and a 24H item is in the 7D bucket
\* exactly when its timestamp is before the start of today.
C4_NestedBeforeToday ==
    (call.op = "run" /\ StartOfDay(call.t30) = StartOfDay(call.t24)) =>
        /\ \A i \in 1..Len(timeframes["7D"]) :
               InBucket(timeframes["7D"][i], timeframes["30D"])
        /\ \A i \in 1..Len(timeframes["24H"]) :
               InBucket(timeframes["24H"][i], timeframes["7D"])
                   <=> timeframes["24H"][i].timestamp < StartOfDay(call.t24)

C4_Witness ==
    /\ call.op = "run"
    /\ StartOfDay(call.t30) = StartOfDay(call.t24)
    /\ \E i \in 1..Len(timeframes["24H"]) : InBucket(timeframes["24H"][i], timeframes["7D"])
    /\ \E i \in 1..Len(timeframes["24H"]) : ~InBucket(timeframes["24H"][i], timeframes["30D"])

\* whether time ts is inside the half-open window of a call made at time t
InWindow(ts, t, hours, days) ==
    IF hours # 0
    THEN t - hours <= ts /\ ts < t
    ELSE StartOfDay(t) - days * HoursPerDay <= ts /\ ts < StartOfDay(t)

\* C5 (as claimed): filter_timeframe keeps exactly the items of a half-open
\* window: cutoff <= timestamp < now for an hours-based window, and
\* cutoff <= timestamp < start of today for a day-based one; an item at or
\* after now is never kept by the hours-based window.
C5_HalfOpenWindow ==
    (call.op = "filter_timeframe" /\ (call.hours # 0 \/ call.days # 0)) =>
        \A i \in 1..Len(all_news) :
            InBucket(all_news[i], call.result)
                <=> InWindow(all_news[i].timestamp, now, call.hours, call.days)

(***************************************************************************)
(* Direct calls of parse_date                                                *)
(***************************************************************************)
\* a date as text: padded and unpadded ISO, day/month/year, a date that does
\* not exist, and text that is no date
DateTexts ==
    {IsoFormat(Day1), <<"2", "0", "2", "4", "-", "3", "-", "5">>, Day1Slashed,
     <<"5", "/", "3", "/", "2", "0", "2", "4">>,
     <<"2", "0", "2", "4", "-", "0", "2", "-", "3", "0">>,
     <<"0", "3", "-", "0", "5", "-", "2", "0", "2", "4">>, Garbage}

\* what follows the date: nothing, a time after T, t or blanks, and text that
\* is no time
TimeTexts ==
    {<<>>, <<"T">> \o TimeOfDay, <<"t">> \o TimeOfDay, <<" ">> \o TimeOfDay,
     <<" ", " ">> \o TimeOfDay, <<"T", "j", "u", "n", "k">>,
     <<"T", "2", "5", ":", "0", "0", ":", "0", "0">>, <<" ", "1", "0", ":", "3", "0">>}

DateStrings == {lead \o d \o t : lead \in {<<>>, <<" ">>}, d \in DateTexts, t \in TimeTexts}

InitParse ==
    /\ call = NoCall
    /\ all_news = <<>>
    /\ now = 0
    /\ timeframes = NoBuckets
    /\ crossed = NoBuckets
    /\ output = NoBuckets
    /\ SnapIdle

\* one call parse_date(date_str)
ParseDate ==
    /\ call.op = "none"
    /\ \E date_str \in DateStrings :
           call' = [op |-> "parse_date", date_str |-> date_str, result |-> parse_date(date_str)]
    /\ UNCHANGED <<all_news, now, timeframes, crossed, output>>
    /\ UNCHANGED snapVars

NextParse == ParseDate

SpecParse == InitParse /\ [][NextParse]_vars

\* whether the text, stripped, is in one of the four formats of lines 18-23
InSupportedFormat(date_str) == \E k \in 1..4 : Strptime(Strip(date_str), k) # NoDate

\* C13 (as claimed): parse_date gives the same date for YYYY-MM-DD alone,
\* followed by THH:MM:SS and followed by a blank and HH:MM:SS; it accepts
\* DD/MM/YYYY; and it returns None for every input that is in none of the
\* supported formats.
C13_ParseDateFormats ==
    call.op = "parse_date" =>
        /\ call.date_str \in {IsoFormat(Day1) \o t :
                                 t \in {<<>>, <<"T">> \o TimeOfDay, <<" ">> \o TimeOfDay}}
               => call.result = Day1
        /\ call.date_str = Day1Slashed => call.result = Day1
        /\ ~InSupportedFormat(call.date_str) => call.result = NoDate

(***************************************************************************)
(* The generation loop on per-date records with empty containers             *)
(***************************************************************************)
\* per-date records: each of three categories with or without content, the
\* other three empty
CleanRecords ==
    {[EmptyRecord EXCEPT !.fundamentals = f, !.xauusd = x, !.news = n] :
        f \in {<<>>, [REAL_RATE |-> "1.85"]},
        x \in {<<>>, [open |-> "2301.0", high |-> "2315.2", low |-> "2296.4",
                      close |-> "2310.5"]},
        n \in {<<>>, <<[category |-> "gold", title |-> "Gold rallies", ticker |-> "GLD"]>>}}

\* timelines over a part of the two days
CleanTimelines == UNION {[D -> CleanRecords] : D \in SUBSET {Day1, Day2}}

InitClean ==
    /\ date_data \in CleanTimelines
    /\ files = <<>>
    /\ input_exists = TRUE
    /\ folder = <<>>
    /\ today = Today0
    /\ clock = 0
    /\ last = NotRun
    /\ NewsIdle

\* the loop of lines 344-367 from Day1 to Day2 over date_data
Generate ==
    /\ ~last.ran
    /\ \E out \in {GenerateLoop([folder |-> folder, written |-> {}], date_data,
                                Day1, Day2, clock + 1)} :
           /\ folder' = out.folder
           /\ last' = [NotRun EXCEPT !.ran = TRUE, !.written = out.written]
    /\ clock' = clock + 1
    /\ UNCHANGED <<files, input_exists, today, date_data>>
    /\ UNCHANGED newsVars

NextClean == Generate

SpecClean == InitClean /\ [][NextClean]_vars

\* the categories of a per-date record that have content
NonEmpty(record) == {k \in DOMAIN record : record[k] # <<>>}

\* C14: the data mapping of every persisted snapshot holds exactly the
\* non-empty categories of the date's record, each unchanged, so no empty dict
\* and no empty list is persisted; a date whose record has no content at all,
\* or that is not in the timeline, gets no artifact.
C14_NoEmptyContainerPersisted ==
    last.ran =>
        \A d \in Day1..Day2 :
            IF d \in DOMAIN date_data /\ NonEmpty(date_data[d]) # {}
            THEN /\ SnapshotName(d) \in DOMAIN folder
                 /\ DOMAIN folder[SnapshotName(d)].data = NonEmpty(date_data[d])
                 /\ \A k \in NonEmpty(date_data[d]) :
                        folder[SnapshotName(d)].data[k] = date_data[d][k]
            ELSE SnapshotName(d) \notin DOMAIN folder

\* a day whose record is all empty next to a day with one category of three
C14_Witness ==
    /\ last.ran
    /\ DOMAIN date_data = {Day1, Day2}
    /\ NonEmpty(date_data[Day1]) = {}
    /\ NonEmpty(date_data[Day2]) = {"xauusd"}
    /\ DOMAIN folder = {SnapshotName(Day2)}
    /\ DOMAIN folder[SnapshotName(Day2)].data = {"xauusd"}

(***************************************************************************)
(* newsentiment.py: RegimeClassifier and MomentumTracker                     *)
(*                                                                           *)
(* A sentiment score is a whole number of eighths, so that the float         *)
(* arithmetic of the code is exact on it; a momentum score and an average    *)
(* sentiment given to the rules are whole numbers of hundredths.             *)
(***************************************************************************)
RECURSIVE SeqSum(_)
SeqSum(xs) == IF xs = <<>> THEN 0 ELSE Head(xs) + SeqSum(Tail(xs))

\* round(num / den) of Python 3 for num >= 0: to the nearest, ties to even
RoundHalfEven(num, den) ==
    IF 2 * (num % den) < den THEN num \div den
    ELSE IF 2 * (num % den) > den THEN (num \div den) + 1
    ELSE IF (num \div den) % 2 = 0 THEN num \div den
    ELSE (num \div den) + 1

\* calculate_fear_greed with fear set to the greed percentage
calculate_fear_greed_FearIsGreed(sentiments) ==
    IF sentiments = <<>> THEN [fear |-> 50, greed |-> 50]
    ELSE [fear |-> ((SeqSum(sentiments) + 8 * Len(sentiments)) * 100)
                       \div (16 * Len(sentiments)),
          greed |-> ((SeqSum(sentiments) + 8 * Len(sentiments)) * 100)
                       \div (16 * Len(sentiments))]

\* lines 935-944.  With avg = sum / (8 * len), ((avg + 1) / 2) * 100 is
\* (sum + 8 * len) * 100 / (16 * len), which is not negative, so that int()
\* is the floor.
calculate_fear_greed(sentiments) ==
    IF sentiments = <<>> THEN [fear |-> 50, greed |-> 50]
    ELSE [fear |-> 100 - (((SeqSum(sentiments) + 8 * Len(sentiments)) * 100)
                              \div (16 * Len(sentiments))),
          greed |-> ((SeqSum(sentiments) + 8 * Len(sentiments)) * 100)
                        \div (16 * Len(sentiments))]

\* lines 934-944: the methods that class RegimeClassifier defines.  The
\* statements of lines 945-965 follow the return of calculate_fear_greed and
\* belong to it.
RegimeClassifierMethods == {"calculate_fear_greed"}

Abs(x) == IF x < 0 THEN 0 - x ELSE x

\* lines 954-965: the rule list, on hundredths
RegimeRules(avg_sentiment, avg_momentum) ==
    IF avg_sentiment < -30 /\ avg_momentum > 200 THEN "Elevated Fear"
    ELSE IF avg_sentiment > 40 /\ avg_momentum > 300 THEN "Euphoria"
    ELSE IF Abs(avg_sentiment) < 10 THEN "Disagreement"
    ELSE IF avg_momentum > 500 THEN "Volatility Warning"
    ELSE IF avg_sentiment > 50 THEN "Hype Cycle"
    ELSE "Normal"

\* line 1025: self.regime_classifier.classify(tf_posts, momentum_data); the
\* attribute lookup raises when the class has no such method
classify(avg_sentiment, avg_momentum) ==
    IF "classify" \in RegimeClassifierMethods
    THEN [raised |-> "no", label |-> RegimeRules(avg_sentiment, avg_momentum)]
    ELSE [raised |-> "AttributeError", label |-> None]

\* lines 880-881: nothing counted yet; hourly_mentions[ticker] is the list of
\* the ticker's hour buckets with their counts, in the order a dict keeps
\* them: the order of first insertion
NoMentions == [raised |-> "no", ticker_mentions |-> <<>>, hourly_mentions |-> <<>>]

\* hourly_mentions[ticker][hour_bucket] += 1
CountBucket(buckets, hour_bucket) ==
    IF \E i \in 1..Len(buckets) : buckets[i].hour = hour_bucket
    THEN [i \in 1..Len(buckets) |->
             IF buckets[i].hour = hour_bucket
             THEN [buckets[i] EXCEPT !.count = @ + 1] ELSE buckets[i]]
    ELSE Append(buckets, [hour |-> hour_bucket, count |-> 1])

\* d[k] of a defaultdict
GetOr(d, k, default) == IF k \in DOMAIN d THEN d[k] ELSE default

\* lines 892-896
CountMention(acc, ticker, hour_bucket) ==
    [acc EXCEPT !.ticker_mentions = DictSet(@, ticker, GetOr(@, ticker, 0) + 1),
                !.hourly_mentions =
                    DictSet(@, ticker, CountBucket(GetOr(@, ticker, <<>>), hour_bucket))]

\* lines 883-896: the loop over the posts.  A timestamp is what fromisoformat
\* makes of it: a naive datetime (a whole hour here, so the hour bucket is the
\* time itself), an aware one, whose comparison with the naive cutoff raises
\* TypeError, or a ValueError, which skips the post.
RECURSIVE ScanPosts(_, _, _)
ScanPosts(acc, posts, cutoff) ==
    IF posts = <<>> THEN acc
    ELSE IF Head(posts).timestamp.kind = "bad" THEN ScanPosts(acc, Tail(posts), cutoff)
    ELSE IF Head(posts).timestamp.kind = "aware" THEN [acc EXCEPT !.raised = "TypeError"]
    ELSE IF Head(posts).timestamp.t < cutoff THEN ScanPosts(acc, Tail(posts), cutoff)
    ELSE IF "ticker" \notin DOMAIN Head(posts) THEN ScanPosts(acc, Tail(posts), cutoff)
    ELSE ScanPosts(CountMention(acc, Head(posts).ticker, Head(posts).timestamp.t),
                   Tail(posts), cutoff)

\* the counts of a ticker's buckets: list(hourly_mentions[ticker].values())
Counts(buckets) == [i \in 1..Len(buckets) |-> buckets[i].count]

\* lines 901-906, in hundredths: recent / (avg + 1) with avg = sum / len is
\* recent * len / (sum + len)
MomentumScore(hourly_data) ==
    IF Len(hourly_data) > 1
    THEN RoundHalfEven(hourly_data[Len(hourly_data)] * Len(hourly_data) * 100,
                       SeqSum(hourly_data) + Len(hourly_data))
    ELSE 100

\* lines 898-911
MomentumResult(acc) ==
    IF acc.raised # "no" THEN [raised |-> acc.raised]
    ELSE [raised |-> "no",
          ticker_mentions |-> acc.ticker_mentions,
          momentum_scores |->
              [ticker \in DOMAIN acc.ticker_mentions |->
                  MomentumScore(Counts(acc.hourly_mentions[ticker]))]]

\* lines 876-911, called at clock reading t
calculate_momentum(posts, t, timeframe_hours) ==
    MomentumResult(ScanPosts(NoMentions, posts, t - timeframe_hours))

(***************************************************************************)
(* Direct calls of calculate_fear_greed, classify and calculate_momentum     *)
(***************************************************************************)
\* the longest list of sentiment scores
MaxSentiments == 2

\* the longest list of posts
MaxPosts == 3

\* sentiment scores from -1 to 1, in eighths
SentimentScores == -8..8

\* average sentiments and momentums around the thresholds, in hundredths
RuleSentiments == {-100, -31, -30, -9, 0, 9, 10, 40, 41, 50, 51, 100}

RuleMomentums == {100, 200, 201, 300, 301, 500, 501}

\* posts of two tickers in three hours of the last day and one hour before it,
\* a post without ticker, one whose timestamp is no ISO text and one with a
\* UTC offset
MomentumPosts ==
    {[ticker |-> k, timestamp |-> [kind |-> "naive", t |-> h]] :
        k \in {"GLD", "SPY"}, h \in {RefHour - 30, RefHour - 3, RefHour - 2, RefHour - 1}}
        \cup {[timestamp |-> [kind |-> "naive", t |-> RefHour - 1]],
              [ticker |-> "GLD", timestamp |-> [kind |-> "bad", t |-> 0]],
              [ticker |-> "GLD", timestamp |-> [kind |-> "aware", t |-> RefHour - 1]]}

InitSocial ==
    /\ call = NoCall
    /\ all_news = <<>>
    /\ now = RefHour
    /\ timeframes = NoBuckets
    /\ crossed = NoBuckets
    /\ output = NoBuckets
    /\ SnapIdle

\* one call calculate_fear_greed(sentiments)
FearGreed ==
    /\ call.op = "none"
    /\ \E sentiments \in SeqsUpTo(SentimentScores, MaxSentiments) :
           call' = [op |-> "calculate_fear_greed", sentiments |-> sentiments,
                    result |-> calculate_fear_greed(sentiments)]
    /\ UNCHANGED <<all_news, now, timeframes, crossed, output>>
    /\ UNCHANGED snapVars

\* the call of line 1025, for posts and momentum data with these averages
Classify ==
    /\ call.op = "none"
    /\ \E avg_sentiment \in RuleSentiments, avg_momentum \in RuleMomentums :
           call' = [op |-> "classify", avg_sentiment |-> avg_sentiment,
                    avg_momentum |-> avg_momentum,
                    result |-> classify(avg_sentiment, avg_momentum)]
    /\ UNCHANGED <<all_news, now, timeframes, crossed, output>>
    /\ UNCHANGED snapVars

\* one call calculate_momentum(posts, timeframe_hours=24)
Momentum ==
    /\ call.op = "none"
    /\ \E posts \in SeqsUpTo(MomentumPosts, MaxPosts) :
           call' = [op |-> "calculate_momentum", posts |-> posts,
                    result |-> calculate_momentum(posts, now, Hours24)]
    /\ UNCHANGED <<all_news, now, timeframes, crossed, output>>
    /\ UNCHANGED snapVars

NextSocial == FearGreed \/ Classify \/ Momentum

SpecSocial == InitSocial /\ [][NextSocial]_vars

\* C16 (as claimed): greed is round(((avg + 1) / 2) * 100) and fear is
\* 100 - greed for every non-empty list of sentiments in [-1, 1]; the empty
\* list gives fear 50 and greed 50.
C16_GreedIsRounded ==
    call.op = "calculate_fear_greed" =>
        IF call.sentiments = <<>> THEN call.result = [fear |-> 50, greed |-> 50]
        ELSE /\ call.result.greed =
                    RoundHalfEven((SeqSum(call.sentiments) + 8 * Len(call.sentiments)) * 100,
                                  16 * Len(call.sentiments))
             /\ call.result.fear = 100 - call.result.greed

\* C17 (as claimed): the single sentiment 1.0 gives fear 100 and greed 100.
C17_OneGivesFear100 ==
    (call.op = "calculate_fear_greed" /\ call.sentiments = <<8>>) =>
        call.result = [fear |-> 100, greed |-> 100]

\* C17 (amended): the single sentiment 1.0 gives greed 100 and fear 0.
C17_OneGivesFear0 ==
    (call.op = "calculate_fear_greed" /\ call.sentiments = <<8>>) =>
        call.result = [fear |-> 0, greed |-> 100]

C17_Witness ==
    /\ call.op = "calculate_fear_greed"
    /\ call.sentiments = <<8>>
    /\ call.result.greed = 100

\* C18 (as claimed): the classification that run requests returns exactly one
\* label for every pair of averages, the one of the first matching rule:
\* Elevated Fear, Euphoria, Disagreement, Volatility Warning, Hype Cycle,
\* otherwise Normal.
C18_FirstMatchingRule ==
    call.op = "classify" =>
        /\ call.result.raised = "no"
        /\ call.result.label = RegimeRules(call.avg_sentiment, call.avg_momentum)

\* the buckets of a ticker inside the window, by the posts of a call
LatestHour(posts, ticker, cutoff) ==
    SetMax({posts[i].timestamp.t : i \in
               {j \in 1..Len(posts) : /\ "ticker" \in DOMAIN posts[j]
                                      /\ posts[j].ticker = ticker
                                      /\ posts[j].timestamp.kind = "naive"
                                      /\ posts[j].timestamp.t >= cutoff}})

\* the number of in-window posts of a ticker in an hour
MentionsIn(posts, ticker, hour) ==
    Cardinality({j \in 1..Len(posts) : /\ "ticker" \in DOMAIN posts[j]
                                       /\ posts[j].ticker = ticker
                                       /\ posts[j].timestamp.kind = "naive"
                                       /\ posts[j].timestamp.t = hour})

\* the hours inside the window in which a ticker is mentioned
HoursOf(posts, ticker, cutoff) ==
    {h \in {posts[j].timestamp.t : j \in 1..Len(posts)} :
        h >= cutoff /\ MentionsIn(posts, ticker, h) > 0}

\* C19 (as claimed): for every ticker and every order of the posts the ratio
\* is the mention count of the chronologically latest hour bucket of the
\* window over the average count per bucket plus one (to two decimals), and
\* it is 1.0 for a ticker with a single bucket.
C19_RatioOfLatestBucket ==
    (call.op = "calculate_momentum" /\ call.result.raised = "no") =>
        \A ticker \in DOMAIN call.result.momentum_scores :
            LET cutoff == now - Hours24
                hours == HoursOf(call.posts, ticker, cutoff)
                total == call.result.ticker_mentions[ticker]
            IN  call.result.momentum_scores[ticker] =
                    IF Cardinality(hours) > 1
                    THEN RoundHalfEven(
                             MentionsIn(call.posts, ticker, LatestHour(call.posts, ticker, cutoff))
                                 * Cardinality(hours) * 100,
                             total + Cardinality(hours))
                    ELSE 100


(***************************************************************************)
(* Editers/jsons_to_text.py: SnapshotConverter.convert_to_text               *)
(*                                                                           *)
(* A text is kept as the list of its sections, which the code joins with     *)
(* newlines.  The value of a category stands for what its formatter makes of *)
(* it: empty data, data the formatter turns into text, data it finds nothing *)
(* to say about (it returns None), and data on which it raises.              *)
(***************************************************************************)
\* lines 640-647: key and title of each formatter, in order
formatters ==
    << [key |-> "xauusd", title |-> "GOLD PRICE ACTION"],
       [key |-> "economic_events", title |-> "ECONOMIC EVENTS"],
       [key |-> "fundamentals", title |-> "FUNDAMENTALS"],
       [key |-> "market_analysis", title |-> "TECHNICAL ANALYSIS"],
       [key |-> "news", title |-> "NEWS HIGHLIGHTS"],
       [key |-> "reddit", title |-> "SOCIAL SENTIMENT"] >>

\* the truth value of data[key]: an empty dict or list is false
Truthy(value) == value.kind # "empty"

\* lines 36-49: parse_numeric of data.get(field), in whole dollars; a missing
\* field is None, which counts as 0 in the test of line 234
FieldOf(data, field) == GetOr(data, field, 0)

\* lines 243-254: the direction of the day
Direction(change) ==
    IF Abs(change) = 0 THEN "no significant change"
    ELSE IF change > 0 THEN "gain"
    ELSE "loss"

\* lines 224-264: XAUUSDFormatter.format; None unless open, high, low and
\* close are all there and not zero
XAUUSDFormat(data) ==
    IF \E field \in {"open", "high", "low", "close"} : FieldOf(data, field) = 0
    THEN None
    ELSE "Gold (XAU/USD) opened at $" \o ToString(data.open)
             \o ", reached a high of $" \o ToString(data.high)
             \o ", dipped to a low of $" \o ToString(data.low)
             \o ", and closed at $" \o ToString(data.close)
             \o ". This represents a daily " \o Direction(data.close - data.open)
             \o " with an intraday range of " \o ToString(data.high - data.low) \o "."

\* formatter(data[key]): the text, None, or the exception raised
formatter(key, value) ==
    IF value.kind = "ohlc" THEN [raised |-> "no", formatted |-> XAUUSDFormat(value.bar)]
    ELSE IF value.kind = "broken" THEN [raised |-> "bad " \o key, formatted |-> None]
    ELSE IF value.kind = "nothing" THEN [raised |-> "no", formatted |-> None]
    ELSE [raised |-> "no", formatted |-> "text of " \o key]

\* lines 657-659
Placeholder(title, e) == title \o ": [Error processing data: " \o e \o "]"

\* RenderCategory with nothing appended for a formatter that raises
RenderCategory_SkipFailed(sections, data, f) ==
    IF ~(f.key \in DOMAIN data /\ Truthy(data[f.key])) THEN sections
    ELSE IF formatter(f.key, data[f.key]).raised # "no" THEN sections
    ELSE IF formatter(f.key, data[f.key]).formatted # None
    THEN sections \o <<f.title \o ":", formatter(f.key, data[f.key]).formatted, "">>
    ELSE sections

\* lines 650-659: the body of the loop
RenderCategory(sections, data, f) ==
    IF ~(f.key \in DOMAIN data /\ Truthy(data[f.key])) THEN sections
    ELSE IF formatter(f.key, data[f.key]).raised # "no"
    THEN sections \o <<Placeholder(f.title, formatter(f.key, data[f.key]).raised), "">>
    ELSE IF formatter(f.key, data[f.key]).formatted # None
    THEN sections \o <<f.title \o ":", formatter(f.key, data[f.key]).formatted, "">>
    ELSE sections

\* RenderFrom taking the formatters from the last to the first
RECURSIVE RenderFrom_Backwards(_, _, _)
RenderFrom_Backwards(sections, data, i) ==
    IF i > Len(formatters) THEN sections
    ELSE RenderFrom_Backwards(
             RenderCategory(sections, data, formatters[Len(formatters) + 1 - i]),
             data, i + 1)

\* lines 649-659: the loop, from formatter i on
RECURSIVE RenderFrom(_, _, _)
RenderFrom(sections, data, i) ==
    IF i > Len(formatters) THEN sections
    ELSE RenderFrom(RenderCategory(sections, data, formatters[i]), data, i + 1)

\* the dates fromisoformat reads, with their strftime("%B %d, %Y")
HeaderOf == ("2024-03-05" :> "March 05, 2024")

\* lines 625-633
DateHeader(snapshot_data) ==
    IF "date" \notin DOMAIN snapshot_data THEN "Unknown Date"
    ELSE IF snapshot_data.date \in DOMAIN HeaderOf THEN HeaderOf[snapshot_data.date]
    ELSE snapshot_data.date

\* line 662: the footer, to the hour
Footer(t) == "hour " \o ToString(t)

\* lines 624-664: the daily snapshot branch, called at clock reading t
convert_to_text(snapshot_data, t) ==
    [raised |-> "no",
     text |-> RenderFrom(<<DateHeader(snapshot_data), "">>,
                         GetOr(snapshot_data, "data", <<>>), 1)
                  \o <<Footer(t)>>]

(***************************************************************************)
(* Direct calls of convert_to_text                                           *)
(***************************************************************************)
CategoryKeys == {formatters[i].key : i \in 1..Len(formatters)}

CategoryValues == {[kind |-> k] : k \in {"empty", "text", "nothing", "broken"}}

\* the data of a snapshot: any of the categories with any of the values
SnapshotDatas ==
    UNION {[keys -> CategoryValues] : keys \in SUBSET CategoryKeys}

\* gold bars with any of the four prices, each zero or not
GoldBars ==
    UNION {[fields -> {0, 1900, 1910}] :
              fields \in (SUBSET {"open", "high", "low", "close"}) \ {{}}}

\* snapshots with a gold bar, with or without news after it
GoldDatas ==
    {[xauusd |-> [kind |-> "ohlc", bar |-> b]] : b \in GoldBars}
        \cup {[xauusd |-> [kind |-> "ohlc", bar |-> b], news |-> [kind |-> "text"]] :
                 b \in GoldBars}

ConvertInputs ==
    {[data |-> d] : d \in SnapshotDatas}
        \cup {[date |-> x, data |-> d] : x \in {"2024-03-05", "n/a"}, d \in SnapshotDatas}
        \cup {[date |-> "2024-03-05", data |-> d] : d \in GoldDatas}

InitConvert ==
    /\ call = NoCall
    /\ all_news = <<>>
    /\ now = RefHour
    /\ timeframes = NoBuckets
    /\ crossed = NoBuckets
    /\ output = NoBuckets
    /\ SnapIdle

\* one call convert_to_text(snapshot_data)
ConvertToText ==
    /\ call.op = "none"
    /\ \E snapshot_data \in ConvertInputs :
           call' = [op |-> "convert_to_text", snapshot_data |-> snapshot_data,
                    result |-> convert_to_text(snapshot_data, now)]
    /\ UNCHANGED <<all_news, now, timeframes, crossed, output>>
    /\ UNCHANGED snapVars

NextConvert == ConvertToText

SpecConvert == InitConvert /\ [][NextConvert]_vars

\* the formatters whose category is rendered and raises
Failing(data) ==
    {i \in 1..Len(formatters) :
        /\ formatters[i].key \in DOMAIN data
        /\ Truthy(data[formatters[i].key])
        /\ formatter(formatters[i].key, data[formatters[i].key]).raised # "no"}

\* the data without one category
WithoutCategory(data, key) == [k \in DOMAIN data \ {key} |-> data[k]]

\* the lines of a text
LinesOf(sections) == {sections[j] : j \in 1..Len(sections)}

\* the sections without a line and the line that follows it
WithoutBlock(sections, line) ==
    LET at == CHOOSE i \in 1..Len(sections) : sections[i] = line
    IN  SubSeq(sections, 1, at - 1) \o SubSeq(sections, at + 2, Len(sections))

\* C20: when the formatter of a category raises, convert_to_text does not
\* raise, its text holds the line '<TITLE>: [Error processing data: ...]' for
\* that category (once, followed by an empty line), and the rest of the text
\* is exactly the text of the same snapshot without that category.
C20_FailingCategoryIsolated ==
    call.op = "convert_to_text" =>
        \A i \in Failing(call.snapshot_data.data) :
            LET line == Placeholder(formatters[i].title,
                                    formatter(formatters[i].key,
                                              call.snapshot_data.data[formatters[i].key]).raised)
                text == call.result.text
            IN  /\ call.result.raised = "no"
                /\ Cardinality({j \in 1..Len(text) : text[j] = line}) = 1
                /\ WithoutBlock(text, line) =
                       convert_to_text(
                           [call.snapshot_data EXCEPT
                               !.data = WithoutCategory(@, formatters[i].key)],
                           now).text

\* a call in which one formatter raises between two categories that render
C20_Witness ==
    /\ call.op = "convert_to_text"
    /\ \E i \in Failing(call.snapshot_data.data) :
           /\ \E j \in 1..(i - 1) :
                  (formatters[j].title \o ":") \in LinesOf(call.result.text)
           /\ \E j \in (i + 1)..Len(formatters) :
                  (formatters[j].title \o ":") \in LinesOf(call.result.text)
           /\ Placeholder(formatters[i].title, "bad " \o formatters[i].key)
                  \in LinesOf(call.result.text)


\* the categories in the order of the summary, with their titles
SectionOrder ==
    << <<"xauusd", "GOLD PRICE ACTION">>, <<"economic_events", "ECONOMIC EVENTS">>,
       <<"fundamentals", "FUNDAMENTALS">>, <<"market_analysis", "TECHNICAL ANALYSIS">>,
       <<"news", "NEWS HIGHLIGHTS">>, <<"reddit", "SOCIAL SENTIMENT">> >>

\* the line that opens the section of a category: its title, or its title
\* with the error text
IsHeadOf(line, k) ==
    \/ line = SectionOrder[k][2] \o ":"
    \/ \E key \in CategoryKeys : line = Placeholder(SectionOrder[k][2], "bad " \o key)

\* the categories whose sections a text holds, in the order of the text
RECURSIVE SectionsOf(_)
SectionsOf(text) ==
    IF text = <<>> THEN <<>>
    ELSE (IF \E k \in 1..Len(SectionOrder) : IsHeadOf(Head(text), k)
          THEN <<CHOOSE k \in 1..Len(SectionOrder) : IsHeadOf(Head(text), k)>>
          ELSE <<>>) \o SectionsOf(Tail(text))

\* the numbers of a set in ascending order
RECURSIVE Ascending(_)
Ascending(S) ==
    IF S = {} THEN <<>>
    ELSE LET least == CHOOSE x \in S : \A y \in S : x <= y
         IN  <<least>> \o Ascending(S \ {least})

\* the payload of a category is there and not empty
HasPayload(data, key) == key \in DOMAIN data /\ Truthy(data[key])

\* the payload is not empty and its formatter does not return None
HasText(data, key) ==
    /\ HasPayload(data, key)
    /\ \/ formatter(key, data[key]).raised # "no"
       \/ formatter(key, data[key]).formatted # None

\* C21 (as claimed): the summary holds exactly one titled section for every
\* category whose payload is not empty, in the fixed order GOLD PRICE ACTION,
\* ECONOMIC EVENTS, FUNDAMENTALS, TECHNICAL ANALYSIS, NEWS HIGHLIGHTS, SOCIAL
\* SENTIMENT.
C21_SectionPerNonEmptyCategory ==
    call.op = "convert_to_text" =>
        SectionsOf(call.result.text) =
            Ascending({k \in 1..Len(SectionOrder) :
                          HasPayload(call.snapshot_data.data, SectionOrder[k][1])})

\* C21 (amended): the summary holds exactly one titled section for every
\* category whose payload is not empty and whose formatter does not return
\* None, in that fixed order.
C21_SectionPerRenderedCategory ==
    call.op = "convert_to_text" =>
        SectionsOf(call.result.text) =
            Ascending({k \in 1..Len(SectionOrder) :
                          HasText(call.snapshot_data.data, SectionOrder[k][1])})

\* a summary with the gold section before the news section
C21_Witness ==
    /\ call.op = "convert_to_text"
    /\ "xauusd" \in DOMAIN call.snapshot_data.data
    /\ call.snapshot_data.data.xauusd.kind = "ohlc"
    /\ SectionsOf(call.result.text) = <<1, 5>>


(***************************************************************************)
(* Editers/jsons_to_text.py: EconomicEventsFormatter.format                  *)
(*                                                                           *)
(* The text of an event is kept as the list of the pieces that the code      *)
(* appends to it.  A number is a whole count of thousandths.                 *)
(***************************************************************************)
\* lines 36-49: parse_numeric of the texts of the inputs; None for any other
NumericOf == ("1.0" :> 1000) @@ ("1.00" :> 1000) @@ ("1.005" :> 1005) @@ ("1.5" :> 1500)

parse_numeric(value) == IF value \in DOMAIN NumericOf THEN NumericOf[value] ELSE None

\* parse_numeric(value) is not None
IsNumber(value) == value \in DOMAIN NumericOf

\* lines 292-305: the comparison with the forecast
ForecastPieces(actual, forecast) ==
    IF forecast # "" /\ actual # forecast
    THEN IF IsNumber(actual) /\ IsNumber(forecast)
         THEN IF parse_numeric(actual) > parse_numeric(forecast)
              THEN <<", beating forecast of " \o forecast>>
              ELSE IF parse_numeric(actual) < parse_numeric(forecast)
              THEN <<", missing forecast of " \o forecast>>
              ELSE <<>>
         ELSE <<" (forecast: " \o forecast \o ")">>
    ELSE IF forecast # "" THEN <<", matching forecast of " \o forecast>>
    ELSE <<>>

\* lines 307-324: the comparison with the previous value; the tolerance of
\* 0.01 is 10 thousandths
PreviousPieces(actual, forecast, previous) ==
    IF previous # "" /\ actual # previous
    THEN IF IsNumber(actual) /\ IsNumber(previous)
         THEN IF Abs(parse_numeric(actual) - parse_numeric(previous)) > 10
              THEN IF parse_numeric(actual) - parse_numeric(previous) > 0
                   THEN <<" and rising from previous " \o previous \o ".">>
                   ELSE <<" and falling from previous " \o previous \o ".">>
              ELSE <<", unchanged from previous " \o previous \o ".">>
         ELSE <<" (previous: " \o previous \o ").">>
    ELSE IF forecast = "" THEN <<".">>
    ELSE <<>>

\* lines 279-326: the text of one event
EventText(event) ==
    <<"At " \o GetOr(event, "time", "Unknown time") \o ", "
          \o GetOr(event, "currency", "") \o " "
          \o GetOr(event, "event", "Unknown event") \o " was released.">>
        \o (IF GetOr(event, "actual", "") # ""
            THEN <<" Actual: " \o event.actual>>
                     \o ForecastPieces(event.actual, GetOr(event, "forecast", ""))
                     \o PreviousPieces(event.actual, GetOr(event, "forecast", ""),
                                       GetOr(event, "previous", ""))
            ELSE <<>>)

\* lines 271-329: EconomicEventsFormatter.format, the list of the lines
EconomicEventsFormat(events) ==
    IF events = <<>> THEN None
    ELSE [i \in 1..Len(events) |-> EventText(events[i])]

(***************************************************************************)
(* Direct calls of EconomicEventsFormatter.format                            *)
(***************************************************************************)
\* the longest list of events
MaxEvents == 1

\* the texts of actual, forecast and previous
ValueTexts == {"", "1.0", "1.00", "1.005", "1.5", "n/a"}

EventInputs ==
    {[time |-> "08:30", currency |-> "USD", event |-> "CPI m/m",
      actual |-> a, forecast |-> f, previous |-> p] :
        a \in ValueTexts, f \in ValueTexts, p \in ValueTexts}
        \cup {[time |-> "08:30", event |-> "CPI m/m", actual |-> a] : a \in ValueTexts}

InitEvents ==
    /\ call = NoCall
    /\ all_news = <<>>
    /\ now = RefHour
    /\ timeframes = NoBuckets
    /\ crossed = NoBuckets
    /\ output = NoBuckets
    /\ SnapIdle

\* one call EconomicEventsFormatter.format(events)
FormatEvents ==
    /\ call.op = "none"
    /\ \E events \in SeqsUpTo(EventInputs, MaxEvents) :
           call' = [op |-> "EconomicEventsFormatter.format", events |-> events,
                    result |-> EconomicEventsFormat(events)]
    /\ UNCHANGED <<all_news, now, timeframes, crossed, output>>
    /\ UNCHANGED snapVars

NextEvents == FormatEvents

SpecEvents == InitEvents /\ [][NextEvents]_vars

\* the forecast clauses of a line
ForecastClauses(line, forecast) ==
    {j \in 1..Len(line) : line[j] \in {", beating forecast of " \o forecast,
                                       ", missing forecast of " \o forecast,
                                       ", matching forecast of " \o forecast}}

\* the previous clauses of a line
PreviousClauses(line, previous) ==
    {j \in 1..Len(line) : line[j] \in {" and rising from previous " \o previous \o ".",
                                       " and falling from previous " \o previous \o ".",
                                       ", unchanged from previous " \o previous \o "."}}

\* C22 (as claimed): for every event whose actual and forecast are not empty
\* and both parse as numbers the line holds exactly one forecast clause:
\* beating when actual > forecast, missing when actual < forecast, matching
\* when they are numerically equal, also when the two texts differ.
C22_ForecastClauseByRelation ==
    call.op = "EconomicEventsFormatter.format" =>
        \A i \in 1..Len(call.events) :
            LET actual == GetOr(call.events[i], "actual", "")
                forecast == GetOr(call.events[i], "forecast", "")
                line == call.result[i]
            IN  (IsNumber(actual) /\ IsNumber(forecast)) =>
                    /\ Cardinality(ForecastClauses(line, forecast)) = 1
                    /\ \E j \in ForecastClauses(line, forecast) :
                           line[j] =
                               IF parse_numeric(actual) > parse_numeric(forecast)
                               THEN ", beating forecast of " \o forecast
                               ELSE IF parse_numeric(actual) < parse_numeric(forecast)
                               THEN ", missing forecast of " \o forecast
                               ELSE ", matching forecast of " \o forecast

\* C23 (as claimed): for every event whose actual and previous are not empty
\* and both parse as numbers the line holds exactly one previous clause:
\* rising or falling when they differ by more than 0.01, unchanged when they
\* differ by no more, also when the two texts are the same.
C23_PreviousClauseByChange ==
    call.op = "EconomicEventsFormatter.format" =>
        \A i \in 1..Len(call.events) :
            LET actual == GetOr(call.events[i], "actual", "")
                previous == GetOr(call.events[i], "previous", "")
                line == call.result[i]
            IN  (IsNumber(actual) /\ IsNumber(previous)) =>
                    /\ Cardinality(PreviousClauses(line, previous)) = 1
                    /\ \E j \in PreviousClauses(line, previous) :
                           line[j] =
                               IF parse_numeric(actual) - parse_numeric(previous) > 10
                               THEN " and rising from previous " \o previous \o "."
                               ELSE IF parse_numeric(previous) - parse_numeric(actual) > 10
                               THEN " and falling from previous " \o previous \o "."
                               ELSE ", unchanged from previous " \o previous \o "."


(***************************************************************************)
(* Editers/jsons_to_text.py: NewsFormatter, RedditFormatter and              *)
(* MarketAnalysisFormatter on the entries that the timeline builder stores   *)
(*                                                                           *)
(* A formatted text is kept as the list of its lines.                        *)
(***************************************************************************)
\* the keys of by_category and by_subreddit as sorted() orders them
SortedKeys == <<"None", "general", "gold", "market", "reddit", "unknown", "wsb">>

\* str.upper() and str.lower() of the texts of the inputs
Upper == ("general" :> "GENERAL") @@ ("gold" :> "GOLD") @@ ("market" :> "MARKET")

Lower == ("Bullish" :> "bullish") @@ ("neutral" :> "neutral")

\* the values of a field over a list of entries, with the default of .get()
FieldValues(entries, field, default) ==
    {GetOr(entries[i], field, default) : i \in 1..Len(entries)}

\* sorted(by.keys()) raises TypeError when None stands next to a string
SortRaises(keys) == None \in keys /\ keys # {None}

\* the entries of one group, in the order of the list
GroupOf(entries, field, default, key) ==
    SelectSeq(entries, LAMBDA e : GetOr(e, field, default) = key)

\* lines 544-549: the bullet of a headline, if it has a title
NewsBullet(item) ==
    IF GetOr(item, "title", "") = "" THEN <<>>
    ELSE <<"  * " \o item.title
               \o (IF GetOr(item, "ticker", "") # "" THEN " [" \o item.ticker \o "]" ELSE "")>>

\* the bullets of a list of headlines
RECURSIVE NewsBullets(_)
NewsBullets(items) ==
    IF items = <<>> THEN <<>> ELSE NewsBullet(Head(items)) \o NewsBullets(Tail(items))

\* lines 539-549: the groups, from the k-th sorted key on
RECURSIVE NewsGroups(_, _)
NewsGroups(articles, k) ==
    IF k > Len(SortedKeys) THEN <<>>
    ELSE (IF SortedKeys[k] \in FieldValues(articles, "category", "general")
          THEN <<Upper[SortedKeys[k]] \o " ("
                     \o ToString(Len(GroupOf(articles, "category", "general", SortedKeys[k])))
                     \o " items):">>
                   \o NewsBullets(GroupOf(articles, "category", "general", SortedKeys[k]))
          ELSE <<>>) \o NewsGroups(articles, k + 1)

\* lines 519-552: NewsFormatter.format.  None has neither upper() nor
\* strip(): a null category, title or ticker raises AttributeError.
NewsFormat(articles) ==
    IF articles = <<>> THEN [raised |-> "no", formatted |-> None]
    ELSE IF SortRaises(FieldValues(articles, "category", "general"))
    THEN [raised |-> "TypeError", formatted |-> None]
    ELSE IF \/ None \in FieldValues(articles, "category", "general")
            \/ None \in FieldValues(articles, "title", "")
            \/ None \in FieldValues(articles, "ticker", "")
    THEN [raised |-> "AttributeError", formatted |-> None]
    ELSE [raised |-> "no",
          formatted |-> NewsGroups(articles, 1)
              \o <<"[Total: "
                       \o ToString(Len(SelectSeq(articles,
                                                 LAMBDA e : GetOr(e, "title", "") # "")))
                       \o " news items]">>]

\* lines 583-585: the bullet of a post, if it has a title
RedditBullet(post) ==
    IF GetOr(post, "title", "") = "" THEN <<>> ELSE <<"  * " \o post.title>>

RECURSIVE RedditBullets(_)
RedditBullets(items) ==
    IF items = <<>> THEN <<>> ELSE RedditBullet(Head(items)) \o RedditBullets(Tail(items))

\* lines 578-585: the groups, from the k-th sorted key on; a null source
\* alone is written as None
RECURSIVE RedditGroups(_, _)
RedditGroups(posts, k) ==
    IF k > Len(SortedKeys) THEN <<>>
    ELSE (IF SortedKeys[k] \in FieldValues(posts, "source", "unknown")
          THEN <<SortedKeys[k] \o " ("
                     \o ToString(Len(GroupOf(posts, "source", "unknown", SortedKeys[k])))
                     \o " posts):">>
                   \o RedditBullets(GroupOf(posts, "source", "unknown", SortedKeys[k]))
          ELSE <<>>) \o RedditGroups(posts, k + 1)

\* lines 559-589: RedditFormatter.format
RedditFormat(posts) ==
    IF posts = <<>> THEN [raised |-> "no", formatted |-> None]
    ELSE IF SortRaises(FieldValues(posts, "source", "unknown"))
    THEN [raised |-> "TypeError", formatted |-> None]
    ELSE IF None \in FieldValues(posts, "title", "")
    THEN [raised |-> "AttributeError", formatted |-> None]
    ELSE [raised |-> "no",
          formatted |-> RedditGroups(posts, 1)
              \o <<"[Total: "
                       \o ToString(Len(SelectSeq(posts,
                                                 LAMBDA e : GetOr(e, "title", "") # "")))
                       \o " posts tracked]">>]

\* lines 483-510: the line of one instrument; the try of line 484 skips the
\* instrument when bias.lower() raises on a null bias
InstrumentLine(data, instrument) ==
    IF GetOr(data, instrument \o "_PRICE", None) = None THEN <<>>
    ELSE IF GetOr(data, instrument \o "_BIAS", "neutral") = None THEN <<>>
    ELSE <<"Gold (XAU/USD): trading at $" \o data[instrument \o "_PRICE"] \o " with "
               \o Lower[GetOr(data, instrument \o "_BIAS", "neutral")] \o " bias.">>

\* lines 466-512: MarketAnalysisFormatter.format, for the one instrument XAUUSD
MarketAnalysisFormat(data) ==
    IF DOMAIN data = {} \/ "XAUUSD_PRICE" \notin DOMAIN data
    THEN [raised |-> "no", formatted |-> None]
    ELSE [raised |-> "no",
          formatted |-> IF InstrumentLine(data, "XAUUSD") = <<>> THEN None
                        ELSE InstrumentLine(data, "XAUUSD")]

(***************************************************************************)
(* Direct calls of the three formatters                                      *)
(***************************************************************************)
\* the longest list of headlines or posts of a date
MaxArticles == 2

\* the records with any of the fields of a set of full records left out
Partial(records) ==
    UNION {{[k \in keys |-> r[k]] : keys \in SUBSET DOMAIN r} : r \in records}

\* headlines of news_30days.json with any of category, title, ticker missing
SourceArticles ==
    Partial({[category |-> c, title |-> t, ticker |-> "GLD"] :
                c \in {"gold", "market"}, t \in {"", "Gold rallies"}})

\* posts of reddit_news.json with title or source missing
SourceRedditPosts ==
    Partial({[title |-> t, source |-> x] :
                t \in {"", "Gold to the moon"}, x \in {"reddit", "wsb"}})

\* market analysis of a date with price or bias missing or null
MarketDatas ==
    Partial({[XAUUSD_PRICE |-> x, XAUUSD_BIAS |-> b] :
                x \in {None, "1900"}, b \in {None, "Bullish"}})

InitRender ==
    /\ call = NoCall
    /\ all_news = <<>>
    /\ now = RefHour
    /\ timeframes = NoBuckets
    /\ crossed = NoBuckets
    /\ output = NoBuckets
    /\ SnapIdle

\* NewsFormatter.format on the entries stored for a list of headlines
FormatNews ==
    /\ call.op = "none"
    /\ \E headlines \in SeqsUpTo(SourceArticles, MaxArticles) :
           call' = [op |-> "NewsFormatter.format",
                    payload |-> [i \in 1..Len(headlines) |-> NewsEntry(headlines[i])],
                    result |-> NewsFormat([i \in 1..Len(headlines) |->
                                              NewsEntry(headlines[i])])]
    /\ UNCHANGED <<all_news, now, timeframes, crossed, output>>
    /\ UNCHANGED snapVars

\* RedditFormatter.format on the entries stored for a list of posts
FormatReddit ==
    /\ call.op = "none"
    /\ \E posts \in SeqsUpTo(SourceRedditPosts, MaxArticles) :
           call' = [op |-> "RedditFormatter.format",
                    payload |-> [i \in 1..Len(posts) |-> RedditEntry(posts[i])],
                    result |-> RedditFormat([i \in 1..Len(posts) |-> RedditEntry(posts[i])])]
    /\ UNCHANGED <<all_news, now, timeframes, crossed, output>>
    /\ UNCHANGED snapVars

\* MarketAnalysisFormatter.format
FormatMarket ==
    /\ call.op = "none"
    /\ \E data \in MarketDatas :
           call' = [op |-> "MarketAnalysisFormatter.format", payload |-> data,
                    result |-> MarketAnalysisFormat(data)]
    /\ UNCHANGED <<all_news, now, timeframes, crossed, output>>
    /\ UNCHANGED snapVars

NextRender == FormatNews \/ FormatReddit \/ FormatMarket

SpecRender == InitRender /\ [][NextRender]_vars

\* C24 (as claimed): a category formatter given a payload with missing, zero
\* or null fields, the null title, ticker, category or source of a stored
\* entry included, returns text or None and does not raise.
C24_FormattersNeverRaise ==
    call.op \in {"NewsFormatter.format", "RedditFormatter.format",
                 "MarketAnalysisFormatter.format"} =>
        call.result.raised = "no"


(***************************************************************************)
(* Editers/jsons_to_text.py: main, the conversion of the snapshot files      *)
(*                                                                           *)
(* A file is what json.load makes of it: a snapshot dict, a JSON list, or    *)
(* text that is no JSON.  The console is taken to accept what is printed.    *)
(***************************************************************************)
\* lines 700-721: the body of the try for one file: the name and text of the
\* summary written, or the exception raised on the way
ConvertFile(file, t) ==
    IF file.kind = "garbage" THEN [raised |-> "JSONDecodeError"]
    ELSE IF file.kind = "list" THEN [raised |-> "AttributeError"]
    ELSE IF GetOr(file.snapshot, "date", "unknown") = "03/05/2024"
    THEN [raised |-> "FileNotFoundError"]
    ELSE [raised |-> "no",
          name |-> "summary_" \o GetOr(file.snapshot, "date", "unknown") \o ".txt",
          text |-> convert_to_text(file.snapshot, t).text]

\* AfterFile leaving the loop at the first file that raises
AfterFile_StopOnError(batch, t) ==
    IF ConvertFile(batch.snapshot_files[batch.i + 1], t).raised = "no"
    THEN [batch EXCEPT !.i = @ + 1, !.converted_count = @ + 1,
                       !.written = DictSet(@,
                           ConvertFile(batch.snapshot_files[batch.i + 1], t).name,
                           ConvertFile(batch.snapshot_files[batch.i + 1], t).text)]
    ELSE [batch EXCEPT !.i = Len(batch.snapshot_files), !.error_count = @ + 1]

\* lines 699-726: one turn of the loop, for the file after the first i
AfterFile(batch, t) ==
    IF ConvertFile(batch.snapshot_files[batch.i + 1], t).raised = "no"
    THEN [batch EXCEPT !.i = @ + 1, !.converted_count = @ + 1,
                       !.written = DictSet(@,
                           ConvertFile(batch.snapshot_files[batch.i + 1], t).name,
                           ConvertFile(batch.snapshot_files[batch.i + 1], t).text)]
    ELSE [batch EXCEPT !.i = @ + 1, !.error_count = @ + 1]

(***************************************************************************)
(* Runs of jsons_to_text.main                                                *)
(***************************************************************************)
\* the most snapshot files in the input folder
MaxFiles == 3

\* the snapshot files: good ones, one with a failing category, one without
\* a date, one whose date is no file name, a JSON list and a broken file
BatchFiles ==
    {[kind |-> "dict", snapshot |-> [date |-> d, data |-> [news |-> [kind |-> k]]]] :
        d \in {"2024-03-05", "2024-03-06", "03/05/2024"}, k \in {"text", "broken"}}
        \cup {[kind |-> "dict", snapshot |-> [data |-> <<>>]],
              [kind |-> "list"], [kind |-> "garbage"]}

InitBatch ==
    /\ call = NoCall
    /\ all_news = <<>>
    /\ now = RefHour
    /\ timeframes = NoBuckets
    /\ crossed = NoBuckets
    /\ output = NoBuckets
    /\ SnapIdle

\* lines 671-697: main up to the loop, with at least one file found
StartBatch ==
    /\ call.op = "none"
    /\ \E snapshot_files \in SeqsUpTo(BatchFiles, MaxFiles) \ {<<>>} :
           call' = [op |-> "main", snapshot_files |-> snapshot_files, i |-> 0,
                    converted_count |-> 0, error_count |-> 0, written |-> <<>>,
                    finished |-> FALSE]
    /\ UNCHANGED <<all_news, now, timeframes, crossed, output>>
    /\ UNCHANGED snapVars

\* lines 699-726: the next file
ProcessFile ==
    /\ call.op = "main"
    /\ call.i < Len(call.snapshot_files)
    /\ call' = AfterFile(call, now)
    /\ UNCHANGED <<all_news, now, timeframes, crossed, output>>
    /\ UNCHANGED snapVars

\* lines 728-733: the counts are printed
FinishBatch ==
    /\ call.op = "main"
    /\ ~call.finished
    /\ call.i = Len(call.snapshot_files)
    /\ call' = [call EXCEPT !.finished = TRUE]
    /\ UNCHANGED <<all_news, now, timeframes, crossed, output>>
    /\ UNCHANGED snapVars

NextBatch == StartBatch \/ ProcessFile \/ FinishBatch

SpecBatch == InitBatch /\ [][NextBatch]_vars

\* the files among the first i that convert
Convertible(batch, t) ==
    {j \in 1..batch.i : ConvertFile(batch.snapshot_files[j], t).raised = "no"}

\* C25: every file is taken in turn and counted once, as converted when its
\* summary is written and as an error when it raises; a file that raises
\* does not stop the loop; when the counts are printed their sum is the
\* number of files found.
C25_EveryFileCountedOnce ==
    call.op = "main" =>
        /\ call.converted_count = Cardinality(Convertible(call, now))
        /\ call.error_count = call.i - Cardinality(Convertible(call, now))
        /\ call.finished =>
               /\ call.i = Len(call.snapshot_files)
               /\ call.converted_count + call.error_count = Len(call.snapshot_files)
               /\ \A j \in Convertible(call, now) :
                      ConvertFile(call.snapshot_files[j], now).name \in DOMAIN call.written

\* a finished run in which a file converts after one that raised
C25_Witness ==
    /\ call.op = "main"
    /\ call.finished
    /\ call.error_count > 0
    /\ \E j \in Convertible(call, now) :
           \E k \in 1..(j - 1) : k \notin Convertible(call, now)


(***************************************************************************)
(* newsentiment.py: NewsSentimentLayer._parse_date and the rows of           *)
(* fetch_finviz                                                              *)
(*                                                                           *)
(* The first cell of a row holds a date and a time or a time alone.  A date  *)
(* text is of the form Mon-DD-YY, of the form Mon-DD, or no date ("Today");  *)
(* a time text is an hour of the day or no time.  A datetime is a count of   *)
(* hours, a day a count of days.  NoDate stands for None.                    *)
(***************************************************************************)
\* strptime(time_str, "%I:%M%p"): the hour, or -1 for a ValueError
HourOf(time_str) == IF time_str.kind = "hour" THEN time_str.hour ELSE -1

\* lines 59-63: strptime of an explicit date text: the day, or NoDate for a
\* ValueError.  A text with '-' is read as Mon-DD-YY, so that Mon-DD raises;
\* a text without '-' is read as Mon-DD, which no such text matches.
DayOfText(date_str) ==
    IF date_str.kind = "mdy" THEN date_str.day ELSE NoDate

\* _parse_date never changing the carried date once it is set
_parse_date_KeepCarried(date_str, time_str, last_date, t) ==
    IF date_str.kind # "none"
    THEN IF DayOfText(date_str) # NoDate /\ HourOf(time_str) >= 0
         THEN [dt |-> DayOfText(date_str) * HoursPerDay + HourOf(time_str),
               last_date |-> IF last_date # NoDate THEN last_date
                             ELSE DayOfText(date_str) * HoursPerDay + HourOf(time_str)]
         ELSE [dt |-> NoDate, last_date |-> last_date]
    ELSE IF HourOf(time_str) < 0 THEN [dt |-> NoDate, last_date |-> last_date]
    ELSE IF last_date # NoDate
    THEN [dt |-> (last_date \div HoursPerDay) * HoursPerDay + HourOf(time_str),
          last_date |-> last_date]
    ELSE [dt |-> (t \div HoursPerDay) * HoursPerDay + HourOf(time_str),
          last_date |-> (t \div HoursPerDay) * HoursPerDay + HourOf(time_str)]

\* lines 56-73, at clock reading t: the pair (dt, last_date)
_parse_date(date_str, time_str, last_date, t) ==
    IF date_str.kind # "none"
    THEN IF DayOfText(date_str) # NoDate /\ HourOf(time_str) >= 0
         THEN [dt |-> DayOfText(date_str) * HoursPerDay + HourOf(time_str),
               last_date |-> DayOfText(date_str) * HoursPerDay + HourOf(time_str)]
         ELSE [dt |-> NoDate, last_date |-> last_date]
    ELSE IF HourOf(time_str) < 0 THEN [dt |-> NoDate, last_date |-> last_date]
    ELSE IF last_date # NoDate
    THEN [dt |-> (last_date \div HoursPerDay) * HoursPerDay + HourOf(time_str),
          last_date |-> last_date]
    ELSE [dt |-> (t \div HoursPerDay) * HoursPerDay + HourOf(time_str),
          last_date |-> (t \div HoursPerDay) * HoursPerDay + HourOf(time_str)]

\* lines 108-113: date_str of a row, of kind none when the cell holds one word
RowDate(row) == IF "date" \in DOMAIN row THEN row.date ELSE [kind |-> "none"]

\* lines 98-129: the loop over the rows; a row without title or cell is
\* skipped (line 105)
RECURSIVE ParseRows(_, _, _, _)
ParseRows(news_data, rows, last_date, t) ==
    IF rows = <<>> THEN [news_data |-> news_data, last_date |-> last_date]
    ELSE IF "title" \notin DOMAIN Head(rows)
    THEN ParseRows(news_data, Tail(rows), last_date, t)
    ELSE ParseRows(
             IF _parse_date(RowDate(Head(rows)), Head(rows).time, last_date, t).dt # NoDate
             THEN Append(news_data,
                         [title |-> Head(rows).title,
                          timestamp |-> _parse_date(RowDate(Head(rows)), Head(rows).time,
                                                    last_date, t).dt])
             ELSE news_data,
             Tail(rows),
             _parse_date(RowDate(Head(rows)), Head(rows).time, last_date, t).last_date,
             t)

(***************************************************************************)
(* The rows of one news table                                                *)
(***************************************************************************)
\* the most rows of a news table
MaxRows == 3

DateCells ==
    {[kind |-> "mdy", day |-> 98], [kind |-> "mdy", day |-> 99],
     [kind |-> "md"], [kind |-> "today"]}

TimeCells == {[kind |-> "hour", hour |-> 9], [kind |-> "hour", hour |-> 15], [kind |-> "bad"]}

\* rows with a date and a time, rows with a time alone, a row without link
TableRows ==
    {[title |-> "Gold rallies", date |-> d, time |-> x] : d \in DateCells, x \in TimeCells}
        \cup {[title |-> "Gold rallies", time |-> x] : x \in TimeCells}
        \cup {[date |-> [kind |-> "mdy", day |-> 97], time |-> [kind |-> "hour", hour |-> 9]]}

InitRows ==
    /\ call = NoCall
    /\ all_news = <<>>
    /\ now = RefHour
    /\ timeframes = NoBuckets
    /\ crossed = NoBuckets
    /\ output = NoBuckets
    /\ SnapIdle

\* the rows of the table fetched in one attempt
ReadRows ==
    /\ call.op = "none"
    /\ \E rows \in SeqsUpTo(TableRows, MaxRows) :
           call' = [op |-> "fetch_finviz rows", rows |-> rows,
                    result |-> ParseRows(<<>>, rows, NoDate, now)]
    /\ UNCHANGED <<all_news, now, timeframes, crossed, output>>
    /\ UNCHANGED snapVars

NextRows == ReadRows

SpecRows == InitRows /\ [][NextRows]_vars

\* a row has a link, an explicit date that parses and a time that parses
Dated(row) ==
    /\ "title" \in DOMAIN row
    /\ "date" \in DOMAIN row
    /\ row.date.kind = "mdy"
    /\ row.time.kind = "hour"

\* a row has a link, no date and a time that parses
TimeOnly(row) ==
    /\ "title" \in DOMAIN row
    /\ "date" \notin DOMAIN row
    /\ row.time.kind = "hour"

\* the day a row stands in: its own, or that of the nearest dated row before
\* it, or the day of the clock
DayOfRow(rows, i, t) ==
    IF Dated(rows[i]) THEN DayOfText(rows[i].date)
    ELSE IF \E j \in 1..(i - 1) : Dated(rows[j])
    THEN DayOfText(rows[SetMax({j \in 1..(i - 1) : Dated(rows[j])})].date)
    ELSE t \div HoursPerDay

\* the rows that yield an item, in order
Yielding(rows) == Ascending({i \in 1..Len(rows) : Dated(rows[i]) \/ TimeOnly(rows[i])})

\* C26: a row with a time alone gets the day of the nearest row before it
\* that had a date that parsed, the day of the clock if there is none; a row
\* that does not parse yields no item and does not change the carried date.
C26_TimeOnlyRowsCarryDate ==
    call.op = "fetch_finviz rows" =>
        /\ Len(call.result.news_data) = Len(Yielding(call.rows))
        /\ \A n \in 1..Len(Yielding(call.rows)) :
               call.result.news_data[n].timestamp =
                   DayOfRow(call.rows, Yielding(call.rows)[n], now) * HoursPerDay
                       + call.rows[Yielding(call.rows)[n]].time.hour

\* a dated row, a row that does not parse, then a row with a time alone,
\* which gets the day of the first
C26_Witness ==
    /\ call.op = "fetch_finviz rows"
    /\ Len(call.rows) = 3
    /\ Dated(call.rows[1])
    /\ ~Dated(call.rows[2]) /\ ~TimeOnly(call.rows[2])
    /\ TimeOnly(call.rows[3])
    /\ Len(call.result.news_data) = 2
    /\ call.result.news_data[2].timestamp \div HoursPerDay = DayOfText(call.rows[1].date)


(***************************************************************************)
(* newsentiment.py: DatabaseManager.add_post                                 *)
(*                                                                           *)
(* The table posts is a function from the primary key id to the row.         *)
(***************************************************************************)
\* lines 563-572: the keys read with post_data[...], which raise KeyError
\* when missing
RequiredKeys == {"id", "source", "title", "author", "timestamp"}

\* lines 562-573: the row bound to the statement, at clock reading t
RowOf(post_data, t) ==
    [id |-> post_data.id, source |-> post_data.source,
     ticker |-> GetOr(post_data, "ticker", None), title |-> post_data.title,
     content |-> GetOr(post_data, "content", ""), author |-> post_data.author,
     timestamp |-> post_data.timestamp, score |-> GetOr(post_data, "score", 0),
     url |-> GetOr(post_data, "url", None), fetch_time |-> t]

\* add_post with INSERT OR REPLACE
add_post_Replace(posts, post_data, t) ==
    IF ~(RequiredKeys \subseteq DOMAIN post_data) THEN [posts |-> posts, returned |-> FALSE]
    ELSE [posts |-> DictSet(posts, post_data.id, RowOf(post_data, t)), returned |-> TRUE]

\* lines 556-577: INSERT OR IGNORE, commit, return True; False on any error
add_post(posts, post_data, t) ==
    IF ~(RequiredKeys \subseteq DOMAIN post_data) THEN [posts |-> posts, returned |-> FALSE]
    ELSE IF post_data.id \in DOMAIN posts THEN [posts |-> posts, returned |-> TRUE]
    ELSE [posts |-> DictSet(posts, post_data.id, RowOf(post_data, t)), returned |-> TRUE]

(***************************************************************************)
(* Calls of add_post on one database                                         *)
(***************************************************************************)
\* the most calls of add_post
MaxAdds == 3

\* posts of two ids with different titles and scores, with and without the
\* optional keys, and a post without author
FetchedPosts ==
    {[id |-> x, source |-> "reddit", ticker |-> "GLD", title |-> y, author |-> "u1",
      timestamp |-> "2024-03-05T10:00:00", score |-> 7] :
        x \in {"reddit_a", "reddit_b"}, y \in {"Gold up", "Gold down"}}
        \cup {[id |-> x, source |-> "reddit", title |-> "Gold up", author |-> "u1",
               timestamp |-> "2024-03-05T10:00:00"] : x \in {"reddit_a", "reddit_b"}}
        \cup {[id |-> "reddit_a", source |-> "reddit", title |-> "Gold up",
               timestamp |-> "2024-03-05T10:00:00"]}

InitStore ==
    /\ call = [op |-> "db", posts |-> <<>>, adds |-> <<>>, removed |-> FALSE]
    /\ all_news = <<>>
    /\ now = RefHour
    /\ timeframes = NoBuckets
    /\ crossed = NoBuckets
    /\ output = NoBuckets
    /\ SnapIdle

\* one call add_post(post_data), an hour after the one before
AddPost ==
    /\ Len(call.adds) < MaxAdds
    /\ \E post_data \in FetchedPosts :
           call' = [op |-> "db",
                    posts |-> add_post(call.posts, post_data, now).posts,
                    adds |-> Append(call.adds,
                                    [post_data |-> post_data, at |-> now,
                                     returned |-> add_post(call.posts, post_data, now).returned]),
                    removed |-> \/ call.removed
                                \/ \E id \in DOMAIN call.posts :
                                       \/ id \notin DOMAIN add_post(call.posts, post_data, now).posts
                                       \/ add_post(call.posts, post_data, now).posts[id]
                                              # call.posts[id]]
    /\ now' = now + 1
    /\ UNCHANGED <<all_news, timeframes, crossed, output>>
    /\ UNCHANGED snapVars

NextStore == AddPost

SpecStore == InitStore /\ [][NextStore]_vars

\* the calls so far that brought a complete post with an id
AddsOf(adds, id) ==
    {n \in 1..Len(adds) : /\ RequiredKeys \subseteq DOMAIN adds[n].post_data
                          /\ adds[n].post_data.id = id}

\* C27: after any calls of add_post the table holds one row for each id
\* added, the row of the first call with that id, and no row has been
\* removed or changed.
C27_FirstAddWins ==
    call.op = "db" =>
        /\ ~call.removed
        /\ DOMAIN call.posts =
               {call.adds[n].post_data.id :
                   n \in {m \in 1..Len(call.adds) :
                             RequiredKeys \subseteq DOMAIN call.adds[m].post_data}}
        /\ \A id \in DOMAIN call.posts :
               LET first == CHOOSE n \in AddsOf(call.adds, id) :
                                \A m \in AddsOf(call.adds, id) : n <= m
               IN  call.posts[id] = RowOf(call.adds[first].post_data, call.adds[first].at)

\* an id added twice with different titles, the first of which is kept
C27_Witness ==
    /\ call.op = "db"
    /\ \E n, m \in 1..Len(call.adds) :
           /\ n < m
           /\ RequiredKeys \subseteq DOMAIN call.adds[n].post_data
           /\ RequiredKeys \subseteq DOMAIN call.adds[m].post_data
           /\ call.adds[n].post_data.id = call.adds[m].post_data.id
           /\ call.adds[n].post_data.title # call.adds[m].post_data.title
           /\ call.posts[call.adds[n].post_data.id].title = call.adds[n].post_data.title


(***************************************************************************)
(* newsentiment.py: NoiseFilter                                              *)
(*                                                                           *)
(* seen_hashes is keyed by the title, of which the md5 digest is taken; a    *)
(* timestamp is a naive datetime in whole hours.                             *)
(***************************************************************************)
\* lines 767-780, for a reddit post with a title of allowed length
_passes_quality_check(post) == post.score >= 5

\* line 802: (a - b).days, the whole days of a timedelta, rounded down
DaysBetween(a, b) == (a - b) \div HoursPerDay

\* lines 798-808: whether the post is a duplicate, and seen_hashes after
_is_duplicate(seen_hashes, post) ==
    IF post.title \in DOMAIN seen_hashes
           /\ DaysBetween(post.timestamp, seen_hashes[post.title]) < 3
    THEN [duplicate |-> TRUE, seen_hashes |-> seen_hashes]
    ELSE [duplicate |-> FALSE,
          seen_hashes |-> DictSet(seen_hashes, post.title, post.timestamp)]

\* lines 748-763: one turn of the loop of filter_posts, for posts that are
\* no spam and long enough
FilterPost(filter, post) ==
    IF ~_passes_quality_check(post)
    THEN [filter EXCEPT !.log = Append(@, [post |-> post, verdict |-> "low quality",
                                           seen |-> filter.seen_hashes])]
    ELSE IF _is_duplicate(filter.seen_hashes, post).duplicate
    THEN [filter EXCEPT !.log = Append(@, [post |-> post, verdict |-> "duplicate",
                                           seen |-> filter.seen_hashes])]
    ELSE [filter EXCEPT !.seen_hashes = _is_duplicate(filter.seen_hashes, post).seen_hashes,
                        !.filtered = Append(@, post),
                        !.log = Append(@, [post |-> post, verdict |-> "kept",
                                           seen |-> filter.seen_hashes])]

(***************************************************************************)
(* The posts passed through one NoiseFilter                                  *)
(***************************************************************************)
\* the most posts passed through the filter
MaxSeen == 3

\* posts of two titles, at the clock, less than and exactly three days
\* later, and more than three days earlier; a post below the score threshold
RawPosts ==
    {[source |-> "reddit", title |-> x, timestamp |-> RefHour + h, score |-> 7] :
        x \in {"Gold rallies again today", "Fed holds rates steady"},
        h \in {0, 71, 72, 0 - 100}}
        \cup {[source |-> "reddit", title |-> "Gold rallies again today",
               timestamp |-> RefHour, score |-> 1]}

InitFilter ==
    /\ call = [op |-> "filter_posts", seen_hashes |-> <<>>, filtered |-> <<>>, log |-> <<>>]
    /\ all_news = <<>>
    /\ now = RefHour
    /\ timeframes = NoBuckets
    /\ crossed = NoBuckets
    /\ output = NoBuckets
    /\ SnapIdle

\* the next post of the list given to filter_posts
NextPost ==
    /\ Len(call.log) < MaxSeen
    /\ \E post \in RawPosts : call' = FilterPost(call, post)
    /\ UNCHANGED <<all_news, now, timeframes, crossed, output>>
    /\ UNCHANGED snapVars

NextFilter == NextPost

SpecFilter == InitFilter /\ [][NextFilter]_vars

\* C28 (as claimed): a post whose title was recorded before is rejected as a
\* duplicate only when its timestamp is within 3 days of the recorded one; a
\* post 3 or more days apart from it, later or earlier, is not a duplicate
\* and its timestamp becomes the recorded one.
C28_DuplicateOnlyWithinThreeDays ==
    call.op = "filter_posts" =>
        \A n \in 1..Len(call.log) :
            LET post == call.log[n].post
                seen == call.log[n].seen
            IN  (post.title \in DOMAIN seen /\ call.log[n].verdict # "low quality") =>
                    IF Abs(post.timestamp - seen[post.title]) < 3 * HoursPerDay
                    THEN call.log[n].verdict = "duplicate"
                    ELSE /\ call.log[n].verdict = "kept"
                         /\ IF n < Len(call.log)
                            THEN call.log[n + 1].seen[post.title] = post.timestamp
                            ELSE call.seen_hashes[post.title] = post.timestamp


(***************************************************************************)
(* newsentiment.py: the attempts of NewsSentimentLayer.fetch_finviz          *)
(*                                                                           *)
(* What an attempt meets is an input: a page with a news table, a page       *)
(* without one, an error whose message holds 429, or another error.          *)
(***************************************************************************)
\* AfterAttempt trying again after any error while attempts remain
AfterAttempt_RetryAnyError(fetch, outcome, t) ==
    IF outcome.kind = "table"
    THEN [fetch EXCEPT !.outcomes = Append(@, outcome), !.done = TRUE,
                       !.result = ParseRows(<<>>, outcome.rows, NoDate, t).news_data]
    ELSE IF outcome.kind = "no table"
    THEN [fetch EXCEPT !.outcomes = Append(@, outcome), !.done = TRUE, !.result = <<>>]
    ELSE IF fetch.attempt < fetch.retries - 1
    THEN [fetch EXCEPT !.outcomes = Append(@, outcome), !.attempt = @ + 1]
    ELSE [fetch EXCEPT !.outcomes = Append(@, outcome), !.done = TRUE, !.result = <<>>]

\* lines 78-138: one turn of the loop over range(retries)
AfterAttempt(fetch, outcome, t) ==
    IF outcome.kind = "table"
    THEN [fetch EXCEPT !.outcomes = Append(@, outcome), !.done = TRUE,
                       !.result = ParseRows(<<>>, outcome.rows, NoDate, t).news_data]
    ELSE IF outcome.kind = "no table"
    THEN [fetch EXCEPT !.outcomes = Append(@, outcome), !.done = TRUE, !.result = <<>>]
    ELSE IF outcome.kind = "429" /\ fetch.attempt < fetch.retries - 1
    THEN [fetch EXCEPT !.outcomes = Append(@, outcome), !.attempt = @ + 1]
    ELSE [fetch EXCEPT !.outcomes = Append(@, outcome), !.done = TRUE, !.result = <<>>]

(***************************************************************************)
(* One call of fetch_finviz                                                  *)
(***************************************************************************)
\* the largest value of retries
MaxRetries == 3

\* the rows of the pages
PageRows ==
    {[title |-> "Gold rallies", date |-> [kind |-> "mdy", day |-> 98],
      time |-> [kind |-> "hour", hour |-> 9]],
     [title |-> "Gold rallies", date |-> [kind |-> "today"],
      time |-> [kind |-> "hour", hour |-> 9]],
     [title |-> "Gold rallies", time |-> [kind |-> "hour", hour |-> 15]],
     [title |-> "Gold rallies", time |-> [kind |-> "bad"]]}

Outcomes ==
    {[kind |-> "table", rows |-> rows] : rows \in SeqsUpTo(PageRows, 2)}
        \cup {[kind |-> "no table"], [kind |-> "429"], [kind |-> "error"]}

InitFetch ==
    /\ call = NoCall
    /\ all_news = <<>>
    /\ now = RefHour
    /\ timeframes = NoBuckets
    /\ crossed = NoBuckets
    /\ output = NoBuckets
    /\ SnapIdle

\* the call fetch_finviz(ticker, category, retries)
StartFetch ==
    /\ call.op = "none"
    /\ \E retries \in 0..MaxRetries :
           call' = [op |-> "fetch_finviz", retries |-> retries, attempt |-> 0,
                    outcomes |-> <<>>, done |-> FALSE, result |-> <<>>]
    /\ UNCHANGED <<all_news, now, timeframes, crossed, output>>
    /\ UNCHANGED snapVars

\* lines 78-138: the next attempt
Attempt ==
    /\ call.op = "fetch_finviz"
    /\ ~call.done
    /\ call.attempt < call.retries
    /\ \E outcome \in Outcomes : call' = AfterAttempt(call, outcome, now)
    /\ UNCHANGED <<all_news, now, timeframes, crossed, output>>
    /\ UNCHANGED snapVars

\* line 140: range(retries) is used up
LoopEnd ==
    /\ call.op = "fetch_finviz"
    /\ ~call.done
    /\ call.attempt >= call.retries
    /\ call' = [call EXCEPT !.done = TRUE, !.result = <<>>]
    /\ UNCHANGED <<all_news, now, timeframes, crossed, output>>
    /\ UNCHANGED snapVars

NextFetch == StartFetch \/ Attempt \/ LoopEnd

\* the call goes on as long as it can
SpecFetch == InitFetch /\ [][NextFetch]_vars /\ WF_vars(NextFetch)

\* at most retries attempts; every attempt but the last met a 429; the call
\* goes on only after a 429 with attempts left; once ended, the result is
\* the parsed rows of a page with a table and the empty list otherwise
FetchBounded ==
    call.op = "fetch_finviz" =>
        /\ Len(call.outcomes) <= call.retries
        /\ \A n \in 1..(Len(call.outcomes) - 1) : call.outcomes[n].kind = "429"
        /\ ~call.done =>
               \/ call.outcomes = <<>>
               \/ /\ call.outcomes[Len(call.outcomes)].kind = "429"
                  /\ Len(call.outcomes) < call.retries
        /\ call.done =>
               /\ \/ call.outcomes = <<>> /\ call.retries = 0
                  \/ /\ call.outcomes # <<>>
                     /\ \/ call.outcomes[Len(call.outcomes)].kind # "429"
                        \/ Len(call.outcomes) = call.retries
               /\ call.result =
                      IF call.outcomes # <<>>
                             /\ call.outcomes[Len(call.outcomes)].kind = "table"
                      THEN ParseRows(<<>>, call.outcomes[Len(call.outcomes)].rows,
                                     NoDate, now).news_data
                      ELSE <<>>

\* C29: fetch_finviz ends after at most retries attempts: it tries again
\* only after an error with 429 in its message and only while attempts
\* remain; any other error, or a 429 on the last attempt, ends it with the
\* empty list, and a fetched page ends it with the parsed rows.
C29_EndsWithinRetries ==
    /\ []FetchBounded
    /\ <>(call.op = "fetch_finviz" /\ call.done)

\* a call that met 429 twice and then fetched a page with rows
C29_Witness ==
    /\ call.op = "fetch_finviz"
    /\ call.done
    /\ Len(call.outcomes) = 3
    /\ call.outcomes[1].kind = "429"
    /\ call.outcomes[2].kind = "429"
    /\ call.outcomes[3].kind = "table"
    /\ call.result # <<>>


(***************************************************************************)
(* fundamentals.py: fetch_fred_series, fetch_real_interest_rate and          *)
(* collect_fundamentals                                                      *)
(*                                                                           *)
(* A response of the API is an error or a list of observations, newest       *)
(* first, each a number or the "." of a missing value.  A yield is a count   *)
(* of hundredths of a percent, an index value a whole number.                *)
(***************************************************************************)
\* line 89: the observations asked for the index series, count=14
CpiCount == 14

\* lines 23-28: the values of the observations that are numbers
RECURSIVE Values(_)
Values(observations) ==
    IF observations = <<>> THEN <<>>
    ELSE (IF Head(observations).kind = "number" THEN <<Head(observations).value>> ELSE <<>>)
             \o Values(Tail(observations))

\* values[:count]
Take(values, count) == SubSeq(values, 1, IF Len(values) < count THEN Len(values) ELSE count)

\* lines 10-33: None for an error and for no values, which has length 0 here
fetch_fred_series(response, count) ==
    IF response.kind = "error" THEN <<>>
    ELSE Take(Values(response.observations), count)

\* lines 92-106, in hundredths: round(yield - ((cpi - cpi_year_ago) /
\* cpi_year_ago) * 100, 2)
RealRate(yield, cpi, cpi_year_ago) ==
    RoundHalfEven(yield * cpi_year_ago + 10000 * cpi_year_ago - 10000 * cpi, cpi_year_ago)

\* lines 87-110: the dict returned, or the exception raised
fetch_real_interest_rate(treasury_response, cpi_response) ==
    IF /\ Len(fetch_fred_series(treasury_response, 2)) >= 2
       /\ Len(fetch_fred_series(cpi_response, CpiCount)) >= 13
    THEN IF Len(fetch_fred_series(cpi_response, CpiCount)) < 14
         THEN [raised |-> "IndexError"]
         ELSE [raised |-> "no",
               REAL_RATE_CURR |->
                   RealRate(fetch_fred_series(treasury_response, 2)[1],
                            fetch_fred_series(cpi_response, CpiCount)[1],
                            fetch_fred_series(cpi_response, CpiCount)[13]),
               REAL_RATE_PREV |->
                   RealRate(fetch_fred_series(treasury_response, 2)[2],
                            fetch_fred_series(cpi_response, CpiCount)[2],
                            fetch_fred_series(cpi_response, CpiCount)[14])]
    ELSE [raised |-> "no", REAL_RATE_CURR |-> None, REAL_RATE_PREV |-> None]

\* lines 254-266, as far as the real rate goes: an exception of
\* fetch_real_interest_rate leaves collect_fundamentals
collect_fundamentals(treasury_response, cpi_response) ==
    IF fetch_real_interest_rate(treasury_response, cpi_response).raised # "no"
    THEN [raised |-> fetch_real_interest_rate(treasury_response, cpi_response).raised]
    ELSE [raised |-> "no",
          fundamentals |->
              [REAL_RATE_CURR |->
                   fetch_real_interest_rate(treasury_response, cpi_response).REAL_RATE_CURR,
               REAL_RATE_PREV |->
                   fetch_real_interest_rate(treasury_response, cpi_response).REAL_RATE_PREV]]

(***************************************************************************)
(* Runs of collect_fundamentals                                              *)
(***************************************************************************)
\* DGS10: an error, and zero to two observations, one of them missing
TreasuryResponses ==
    {[kind |-> "error"], [kind |-> "ok", observations |-> <<>>],
     [kind |-> "ok", observations |-> <<[kind |-> "number", value |-> 425]>>],
     [kind |-> "ok", observations |-> <<[kind |-> "number", value |-> 425],
                                        [kind |-> "number", value |-> 450]>>],
     [kind |-> "ok", observations |-> <<[kind |-> "missing"],
                                        [kind |-> "number", value |-> 450]>>]}

\* n observations of the index, rising by steps or falling
CpiObservations(n, newest, step) ==
    [i \in 1..n |-> [kind |-> "number", value |-> newest - step * (i \div 7)]]

\* CPIAUCSL: an error, and zero to CpiCount observations, with or without a
\* missing one among them
CpiResponses ==
    {[kind |-> "error"]}
        \cup {[kind |-> "ok", observations |-> CpiObservations(n, 104, step)] :
                 n \in 0..CpiCount, step \in {2, 0 - 2}}
        \cup {[kind |-> "ok",
               observations |-> [CpiObservations(n, 104, 2) EXCEPT ![1] = [kind |-> "missing"]]] :
                 n \in 1..CpiCount}

InitFundamentals ==
    /\ call = NoCall
    /\ all_news = <<>>
    /\ now = RefHour
    /\ timeframes = NoBuckets
    /\ crossed = NoBuckets
    /\ output = NoBuckets
    /\ SnapIdle

\* one call collect_fundamentals()
CollectFundamentals ==
    /\ call.op = "none"
    /\ \E treasury_response \in TreasuryResponses, cpi_response \in CpiResponses :
           call' = [op |-> "collect_fundamentals",
                    treasury_10y |-> fetch_fred_series(treasury_response, 2),
                    cpi_values |-> fetch_fred_series(cpi_response, CpiCount),
                    result |-> collect_fundamentals(treasury_response, cpi_response)]
    /\ UNCHANGED <<all_news, now, timeframes, crossed, output>>
    /\ UNCHANGED snapVars

NextFundamentals == CollectFundamentals

SpecFundamentals == InitFundamentals /\ [][NextFundamentals]_vars

\* C30 (as claimed): fetch_real_interest_rate never raises: with fewer than
\* 2 treasury observations or fewer than 14 index observations, exactly 13
\* included, both real rates are None, and collect_fundamentals completes.
C30_ShortSeriesGiveNone ==
    call.op = "collect_fundamentals" =>
        /\ call.result.raised = "no"
        /\ (Len(call.treasury_10y) < 2 \/ Len(call.cpi_values) < 14) =>
               call.result.fundamentals =
                   [REAL_RATE_CURR |-> None, REAL_RATE_PREV |-> None]

=============================================================================
